---- MODULE Spec2Model ----
(***************************************************************************)
(* Model of monetha/go-ethereum.                                           *)
(*                                                                         *)
(* Part 1: backend.HandleNonceBackend (src/backend/backend.go), the        *)
(* decorator that keeps a per-address nonce next to the inner backend's    *)
(* pending nonce, and Transferer.Transfer (src/unnamed/part_002), the      *)
(* caller that asks it for a nonce and then sends a transaction with it.   *)
(*                                                                         *)
(* uint64 values are scaled to 0 .. NonceMod-1 with wrap-around addition,  *)
(* so NonceMod stands for 2^64 and NonceMod-1 for the largest uint64.      *)
(***************************************************************************)
EXTENDS Integers, Sequences, FiniteSets, TLC

VARIABLES
    addressNonce,   \* HandleNonceBackend.addressNonce: map address -> uint64
    last,           \* record of the most recent call made on the backend
    obs,            \* the account whose PendingNonceAt results are recorded
    hist,           \* the successful PendingNonceAt(obs) result preceding the last call
    scen,           \* progress of the query/send/query/send/query scenario
    pc,             \* Transfer: position of each caller
    from,           \* Transfer: opts.From of each caller
    nonce,          \* Transfer: the local variable nonce of each caller
    sent,           \* inner backend: accepted transaction nonces per address
    failedSends,    \* per address: nonce of the send that failed since the last accepted one
    overlap,        \* addresses for which two Transfer calls overlapped
    chosen,         \* accounts for which a Transfer call was given opts.Nonce
    cfg,            \* BlockSource: the Config passed to New, and the consumer's plan
    chainHead,      \* the node: number of its most recent block
    bs,             \* BlockSource: locals of the goroutine started by runAsync
    bsClose,        \* BlockSource: closed, closeOnce, wg, ctx, the channel, Close callers
    consumer,       \* the goroutine that ranges over BlockSource.C
    bsHist,         \* BlockSource: record of the calls made and the blocks delivered
    estimator,      \* GasPriceEstimator: gasPrice, rwMutex, the runAsync goroutine
    gpClose,        \* GasPriceEstimator: closed, closeOnce, wg, ctx, Close callers
    readers,        \* callers of GasPriceEstimator.SuggestGasPrice
    gpHist,         \* GasPriceEstimator: record of the fetches and of Close
    nodePrice,      \* the node: the gas price it suggests
    wrapped,        \* what NewHandleNonceBackend was given and what it returned
    applied,        \* a function of the program applied to arguments, and its result
    waitTx,         \* a call of Eth.WaitForTxReceipt: its position, context and result
    blockFetch      \* a call of Client.getBlock: the receipts it loads and its result

vars == <<addressNonce, last, obs, hist, scen, pc, from, nonce, sent,
          failedSends, overlap, chosen, cfg, chainHead, bs, bsClose, consumer,
          bsHist, estimator, gpClose, readers, gpHist, nodePrice, wrapped,
          applied, waitTx, blockFetch>>

backendVars  == <<addressNonce, last, obs, hist, scen>>
transferVars == <<pc, from, nonce, sent, failedSends, overlap, chosen>>
nonceVars    == <<backendVars, transferVars, wrapped, applied, waitTx,
                  blockFetch>>
blockVars    == <<cfg, chainHead, bs, bsClose, consumer, bsHist>>
gasVars      == <<estimator, gpClose, readers, gpHist, nodePrice>>

----------------------------------------------------------------------------
(* Bounds and value domains *)

NonceMod == 5

Uint64 == 0 .. (NonceMod - 1)

MaxUint64 == NonceMod - 1

\* uint64 addition
Add64(a, b) == (a + b) % NonceMod

Max(a, b) == IF a > b THEN a ELSE b

Accounts == {"A", "B", "X"}

\* the handleAddresses argument of NewHandleNonceBackend
handleAddresses == {"A", "B"}

\* a transaction whose signature recovers to no address
NoSigner == "none"

ErrNil == "nil"

\* errors the inner backend can return
InnerErrors == {"errNode", "errPool"}

ErrInvalidSender == "invalid sender"

Transactions == [signer : Accounts \cup {NoSigner}, nonce : Uint64]

NoTx == [signer |-> NoSigner, nonce |-> 0]

Callers == {1, 2}

----------------------------------------------------------------------------
(* HandleNonceBackend *)

NewHandleNonceBackend(addresses) == [a \in addresses |-> 0]

\* types.Sender: the address recovered from the signature, or an error
Sender(tx) ==
    IF tx.signer = NoSigner
    THEN [from |-> NoSigner, err |-> ErrInvalidSender]
    ELSE [from |-> tx.signer, err |-> ErrNil]

PendingNonceAtNoStore(b, account, innerNonce, innerErr) ==
    IF innerErr # ErrNil
    THEN [nonce |-> innerNonce, err |-> innerErr, addressNonce |-> b, calls |-> 1]
    ELSE IF account \notin DOMAIN b
    THEN [nonce |-> innerNonce, err |-> ErrNil, addressNonce |-> b, calls |-> 1]
    ELSE [nonce |-> Max(innerNonce, b[account]), err |-> ErrNil,
          addressNonce |-> b, calls |-> 1]

PendingNonceAtStoreFirst(b, account, innerNonce, innerErr) ==
    LET stored == IF account \in DOMAIN b /\ innerNonce > b[account]
                  THEN [b EXCEPT ![account] = innerNonce] ELSE b
    IN  IF innerErr # ErrNil
        THEN [nonce |-> innerNonce, err |-> innerErr, addressNonce |-> stored,
              calls |-> 1]
        ELSE IF account \notin DOMAIN b
        THEN [nonce |-> innerNonce, err |-> ErrNil, addressNonce |-> b, calls |-> 1]
        ELSE [nonce |-> Max(innerNonce, b[account]), err |-> ErrNil,
              addressNonce |-> stored, calls |-> 1]

\* PendingNonceAt on the map b, given what b.inner.PendingNonceAt returned.
\* calls is the number of calls made on the inner backend.
PendingNonceAt(b, account, innerNonce, innerErr) ==
    IF innerErr # ErrNil
    THEN [nonce |-> innerNonce, err |-> innerErr, addressNonce |-> b, calls |-> 1]
    ELSE IF account \notin DOMAIN b
    THEN [nonce |-> innerNonce, err |-> ErrNil, addressNonce |-> b, calls |-> 1]
    ELSE IF innerNonce > b[account]
    THEN [nonce |-> innerNonce, err |-> ErrNil,
          addressNonce |-> [b EXCEPT ![account] = innerNonce], calls |-> 1]
    ELSE [nonce |-> b[account], err |-> ErrNil, addressNonce |-> b, calls |-> 1]

incrementNonceAlways(b, tx) ==
    LET s == Sender(tx)
    IN  IF s.err # ErrNil THEN b
        ELSE IF s.from \notin DOMAIN b THEN b
        ELSE [b EXCEPT ![s.from] = Add64(tx.nonce, 1)]

incrementNonceNoPlusOne(b, tx) ==
    LET s == Sender(tx)
    IN  IF s.err # ErrNil THEN b
        ELSE IF s.from \notin DOMAIN b THEN b
        ELSE IF tx.nonce > b[s.from] THEN [b EXCEPT ![s.from] = tx.nonce]
        ELSE b

incrementNonceAnyAddress(b, tx) ==
    LET s == Sender(tx)
        n == Add64(tx.nonce, 1)
    IN  IF s.err # ErrNil THEN b
        ELSE IF s.from \notin DOMAIN b
        THEN [a \in DOMAIN b \cup {s.from} |-> IF a = s.from THEN n ELSE b[a]]
        ELSE IF n > b[s.from] THEN [b EXCEPT ![s.from] = n]
        ELSE b

incrementNonceUnbounded(b, tx) ==
    LET s == Sender(tx)
        n == tx.nonce + 1
    IN  IF s.err # ErrNil THEN b
        ELSE IF s.from \notin DOMAIN b THEN b
        ELSE IF n > b[s.from] THEN [b EXCEPT ![s.from] = n]
        ELSE b

incrementNonce(b, tx) ==
    LET s == Sender(tx)
        n == Add64(tx.nonce, 1)
    IN  IF s.err # ErrNil THEN b
        ELSE IF s.from \notin DOMAIN b THEN b
        ELSE IF n > b[s.from] THEN [b EXCEPT ![s.from] = n]
        ELSE b

SendTransactionIncrementFirst(b, tx, innerErr) ==
    [err |-> innerErr, addressNonce |-> incrementNonce(b, tx), calls |-> 1]

SendTransactionReportsSender(b, tx, innerErr) ==
    IF innerErr # ErrNil
    THEN [err |-> innerErr, addressNonce |-> b, calls |-> 1]
    ELSE [err |-> Sender(tx).err, addressNonce |-> incrementNonce(b, tx),
          calls |-> 1]

\* SendTransaction on the map b, given what b.inner.SendTransaction returned
SendTransaction(b, tx, innerErr) ==
    IF innerErr # ErrNil
    THEN [err |-> innerErr, addressNonce |-> b, calls |-> 1]
    ELSE [err |-> ErrNil, addressNonce |-> incrementNonce(b, tx), calls |-> 1]

----------------------------------------------------------------------------
(* simBackend, returned when the inner backend has Commit and Rollback *)

ReturnedBackendAlwaysPlain(commiterRollbacker) ==
    [commiterRollbacker |-> commiterRollbacker, returned |-> "HandleNonceBackend"]

\* lines 40-47: what NewHandleNonceBackend returns for an inner backend
\* that is, or is not, a commiterRollbacker
ReturnedBackend(commiterRollbacker) ==
    [commiterRollbacker |-> commiterRollbacker,
     returned |-> IF commiterRollbacker THEN "simBackend"
                  ELSE "HandleNonceBackend"]

simPendingNonceAtOfInner(b, account, innerNonce, innerErr) ==
    [nonce |-> innerNonce, err |-> innerErr, addressNonce |-> b, calls |-> 1]

\* simBackend.PendingNonceAt (line 183): b.b.PendingNonceAt
simPendingNonceAt(b, account, innerNonce, innerErr) ==
    PendingNonceAt(b, account, innerNonce, innerErr)

\* simBackend.SendTransaction: b.b.SendTransaction
simSendTransaction(b, tx, innerErr) == SendTransaction(b, tx, innerErr)

simCommitAsRollback(b) ==
    [addressNonce |-> b, calls |-> 1, forwarded |-> "Rollback"]

\* simBackend.Commit: b.cr.Commit()
simCommit(b) == [addressNonce |-> b, calls |-> 1, forwarded |-> "Commit"]

\* simBackend.Rollback: b.cr.Rollback()
simRollback(b) == [addressNonce |-> b, calls |-> 1, forwarded |-> "Rollback"]

\* the methods of the object NewHandleNonceBackend returned
ReturnedPendingNonceAt(kind, b, account, innerNonce, innerErr) ==
    IF kind = "simBackend"
    THEN simPendingNonceAt(b, account, innerNonce, innerErr)
    ELSE PendingNonceAt(b, account, innerNonce, innerErr)

ReturnedSendTransaction(kind, b, tx, innerErr) ==
    IF kind = "simBackend"
    THEN simSendTransaction(b, tx, innerErr)
    ELSE SendTransaction(b, tx, innerErr)

----------------------------------------------------------------------------
(* Observers of the call sequence *)

NoCall ==
    [op |-> "none", forwarded |-> "none",
     account |-> NoSigner, tx |-> NoTx, innerNonce |-> 0,
     innerErr |-> ErrNil, nonce |-> 0, err |-> ErrNil, calls |-> 0,
     before |-> NewHandleNonceBackend(handleAddresses)]

ScenOff == [step |-> -1, account |-> NoSigner, inner |-> 0, n1 |-> 0]

ScenStart == [step |-> 0, account |-> NoSigner, inner |-> 0, n1 |-> 0]

\* The scenario: on a fresh backend, PendingNonceAt(a) with inner value i;
\* SendTransaction from a with a nonce n1 >= i below the largest uint64;
\* PendingNonceAt(a) with inner value i; SendTransaction from a with a nonce
\* below n1; PendingNonceAt(a) with inner value i.  All calls succeed.
ScenStep(s, call) ==
    LET isQuery == call.op = "PendingNonceAt" /\ call.err = ErrNil
        isSend  == call.op = "SendTransaction" /\ call.err = ErrNil
    IN  IF s.step = 0 /\ isQuery /\ call.account \in handleAddresses
        THEN [step |-> 1, account |-> call.account, inner |-> call.innerNonce,
              n1 |-> 0]
        ELSE IF s.step = 1 /\ isSend /\ call.tx.signer = s.account
                /\ call.tx.nonce >= s.inner /\ call.tx.nonce < MaxUint64
        THEN [s EXCEPT !.step = 2, !.n1 = call.tx.nonce]
        ELSE IF s.step \in {2, 4} /\ isQuery /\ call.account = s.account
                /\ call.innerNonce = s.inner
        THEN [s EXCEPT !.step = s.step + 1]
        ELSE IF s.step = 3 /\ isSend /\ call.tx.signer = s.account
                /\ call.tx.nonce < s.n1
        THEN [s EXCEPT !.step = 4]
        ELSE ScenOff

\* hist after one more call: the result of the call that was the last one, if
\* that was a successful PendingNonceAt of the observed account
HistNext(h, call, observed) ==
    IF call.op = "PendingNonceAt" /\ call.err = ErrNil /\ call.account = observed
    THEN <<[inner |-> call.innerNonce, ret |-> call.nonce]>>
    ELSE h

----------------------------------------------------------------------------
(* Values shared by BlockSource and GasPriceEstimator *)

\* a *big.Int that may be nil
None == <<>>

Some(n) == <<n>>

Val(o) == o[1]

\* the goroutines that call Close
Closers == {"owner", "consumer"}

\* number of Close calls made on one component
MaxCloseCalls == 2

\* closed, closeOnce, wg and the context of a component whose constructor
\* has returned: runAsync has added its two goroutines to wg
NewLifecycle ==
    [closed   |-> FALSE,                        \* close(closed) has run
     once     |-> "fresh",                      \* closeOnce
     wg       |-> 2,                            \* counter of wg
     ctxDone  |-> FALSE,                        \* cancel() has run
     cancelOnCloseExited |-> FALSE,
     caller   |-> [c \in Closers |-> "out"],    \* position of each Close caller
     calls    |-> 0,                            \* Close calls made
     returned |-> FALSE,                        \* some Close call has returned
     panicked |-> FALSE,                        \* close of a closed channel
     blocks   |-> 0,                            \* times close(blocks) has run
     client   |-> 0]                            \* times client.Close has run

\* the goroutine of runAsync before New has run
NoBlockSource ==
    [pc |-> "none", recentBlkNumber |-> None, currBlkNumber |-> None,
     delayBeforeIteration |-> FALSE, b |-> None, deferred |-> <<>>]

NoConfig ==
    [StartBlock |-> None, Confirmations |-> 0, head |-> 0, closeAfter |-> None]

NoConsumer == [pc |-> "none", received |-> 0]

NewBlockHistory ==
    [delivered   |-> <<>>,    \* the blocks sent on the channel, in order
     fetchHead   |-> None,    \* recentBlkNumber when BlockByNumber was last called
     firstHead   |-> None,    \* the first result of BlockNumber
     firstEligible |-> None,  \* the first result of BlockNumber >= Confirmations
     firstFetch  |-> None,    \* the argument of the first BlockByNumber call
     headQueries |-> FALSE,   \* BlockNumber has been called
     waited      |-> FALSE,   \* the loop has backed off after BlockNumber succeeded
     lateSend    |-> FALSE,   \* a block was sent after close(blocks)
     failure     |-> None]    \* the last failure since a block was fetched

BlockSourceAbsent ==
    /\ cfg = NoConfig
    /\ chainHead = 0
    /\ bs = NoBlockSource
    /\ bsClose = NewLifecycle
    /\ consumer = NoConsumer
    /\ bsHist = NewBlockHistory

\* the goroutines that call GasPriceEstimator.SuggestGasPrice
Readers == {1, 2}

\* the words of the big.Int that holds price v
Words(v) == <<v, v>>

NoEstimator ==
    [pc |-> "none", gasPrice |-> Words(0), newGasPrice |-> 0,
     writer |-> FALSE, readLocks |-> 0]

NoReaders ==
    [r \in Readers |->
        [pc |-> "out", word |-> 0, result |-> None, afterClose |-> FALSE]]

NewGasHistory ==
    [initial |-> 0,         \* the price the constructor was given
     fetched |-> {},        \* the prices returned by successful fetches
     last    |-> None,      \* the price returned by the most recent fetch, if it succeeded
     failed  |-> FALSE]     \* the most recent fetch returned an error

GasPriceEstimatorAbsent ==
    /\ estimator = NoEstimator
    /\ gpClose = NewLifecycle
    /\ readers = NoReaders
    /\ gpHist = NewGasHistory
    /\ nodePrice = 0

----------------------------------------------------------------------------
(* Calls made directly on the backend *)

\* no function is applied outside of the program's run
NoApplication == [f |-> "none", args |-> <<>>, result |-> FALSE, done |-> FALSE]

\* no call of getBlock is made
NoBlockFetch ==
    [pc |-> "none", txs |-> <<>>, chunks |-> <<>>, k |-> 0, chunkOffset |-> 0,
     receipts |-> <<>>, batches |-> <<>>, answered |-> <<>>, block |-> <<>>,
     err |-> <<>>]

\* no call of WaitForTxReceipt is made; err is an error, nil when empty,
\* and tr a receipt, nil when empty
NoWait ==
    [pc |-> "none", ctxDone |-> FALSE, node |-> "pending", commits |-> 0,
     intervals |-> 0, lookups |-> 0, notFound |-> 0, cause |-> "none",
     tr |-> <<>>, err |-> <<>>]

InitTransfer ==
    /\ pc = [c \in Callers |-> "idle"]
    /\ from = [c \in Callers |-> "A"]
    /\ nonce = [c \in Callers |-> 0]
    /\ sent = [a \in handleAddresses |-> <<>>]
    /\ failedSends = [a \in handleAddresses |-> {}]
    /\ overlap = {}
    /\ chosen = {}

\* a fresh backend; the call sequence is followed against the scenario
Init ==
    /\ addressNonce = NewHandleNonceBackend(handleAddresses)
    /\ last = NoCall
    /\ obs = NoSigner
    /\ hist = <<>>
    /\ scen = ScenStart
    /\ InitTransfer
    /\ wrapped = ReturnedBackend(FALSE)
    /\ applied = NoApplication
    /\ waitTx = NoWait
    /\ blockFetch = NoBlockFetch
    /\ BlockSourceAbsent
    /\ GasPriceEstimatorAbsent

\* a fresh backend; the PendingNonceAt results of one account are recorded
InitObserved ==
    /\ addressNonce = NewHandleNonceBackend(handleAddresses)
    /\ last = NoCall
    /\ obs \in Accounts
    /\ hist = <<>>
    /\ scen = ScenOff
    /\ InitTransfer
    /\ wrapped = ReturnedBackend(FALSE)
    /\ applied = NoApplication
    /\ waitTx = NoWait
    /\ blockFetch = NoBlockFetch
    /\ BlockSourceAbsent
    /\ GasPriceEstimatorAbsent

\* a fresh backend whose calls are neither recorded per account nor
\* followed against the scenario
InitUnobserved ==
    /\ addressNonce = NewHandleNonceBackend(handleAddresses)
    /\ last = NoCall
    /\ obs = NoSigner
    /\ hist = <<>>
    /\ scen = ScenOff
    /\ InitTransfer

\* a fresh backend on which no call is made
BackendIdle ==
    /\ InitUnobserved
    /\ wrapped = ReturnedBackend(FALSE)
    /\ applied = NoApplication
    /\ waitTx = NoWait
    /\ blockFetch = NoBlockFetch

CallPendingNonceAt ==
    \E account \in Accounts, innerNonce \in Uint64,
       innerErr \in InnerErrors \cup {ErrNil} :
        LET r == ReturnedPendingNonceAt(wrapped.returned, addressNonce, account,
                                        innerNonce, innerErr)
            call == [op |-> "PendingNonceAt", forwarded |-> "PendingNonceAt",
                     account |-> account, tx |-> NoTx,
                     innerNonce |-> innerNonce, innerErr |-> innerErr,
                     nonce |-> r.nonce, err |-> r.err, calls |-> r.calls,
                     before |-> addressNonce]
        IN  /\ addressNonce' = r.addressNonce
            /\ last' = call
            /\ hist' = HistNext(hist, last, obs)
            /\ scen' = ScenStep(scen, call)
            /\ UNCHANGED <<obs, transferVars>>
            /\ UNCHANGED <<blockVars, gasVars, wrapped, applied, waitTx, blockFetch>>

CallSendTransaction ==
    \E tx \in Transactions, innerErr \in InnerErrors \cup {ErrNil} :
        LET r == ReturnedSendTransaction(wrapped.returned, addressNonce, tx,
                                         innerErr)
            call == [op |-> "SendTransaction", forwarded |-> "SendTransaction",
                     account |-> NoSigner, tx |-> tx,
                     innerNonce |-> 0, innerErr |-> innerErr,
                     nonce |-> 0, err |-> r.err, calls |-> r.calls,
                     before |-> addressNonce]
        IN  /\ addressNonce' = r.addressNonce
            /\ last' = call
            /\ hist' = HistNext(hist, last, obs)
            /\ scen' = ScenStep(scen, call)
            /\ UNCHANGED <<obs, transferVars>>
            /\ UNCHANGED <<blockVars, gasVars, wrapped, applied, waitTx, blockFetch>>

Next == CallPendingNonceAt \/ CallSendTransaction

\* Commit called on the returned object, which has that method only if it
\* is a simBackend
CallCommit ==
    /\ wrapped.returned = "simBackend"
    /\ LET r == simCommit(addressNonce)
       IN  /\ addressNonce' = r.addressNonce
           /\ last' = [NoCall EXCEPT !.op = "Commit",
                                     !.forwarded = r.forwarded,
                                     !.calls = r.calls,
                                     !.before = addressNonce]
    /\ hist' = HistNext(hist, last, obs)
    /\ scen' = ScenStep(scen, last')
    /\ UNCHANGED <<obs, transferVars>>
    /\ UNCHANGED <<blockVars, gasVars, wrapped, applied, waitTx, blockFetch>>

CallRollback ==
    /\ wrapped.returned = "simBackend"
    /\ LET r == simRollback(addressNonce)
       IN  /\ addressNonce' = r.addressNonce
           /\ last' = [NoCall EXCEPT !.op = "Rollback",
                                     !.forwarded = r.forwarded,
                                     !.calls = r.calls,
                                     !.before = addressNonce]
    /\ hist' = HistNext(hist, last, obs)
    /\ scen' = ScenStep(scen, last')
    /\ UNCHANGED <<obs, transferVars>>
    /\ UNCHANGED <<blockVars, gasVars, wrapped, applied, waitTx, blockFetch>>

\* the inner backend is, or is not, a commiterRollbacker
InitSim ==
    /\ InitUnobserved
    /\ \E cr \in BOOLEAN : wrapped = ReturnedBackend(cr)
    /\ applied = NoApplication
    /\ waitTx = NoWait
    /\ blockFetch = NoBlockFetch
    /\ BlockSourceAbsent
    /\ GasPriceEstimatorAbsent

NextSim ==
    \/ CallPendingNonceAt
    \/ CallSendTransaction
    \/ CallCommit
    \/ CallRollback

SpecSim == InitSim /\ [][NextSim]_vars

Spec == Init /\ [][Next]_vars

SpecObserved == InitObserved /\ [][Next]_vars

----------------------------------------------------------------------------
(* Transferer.Transfer run by callers that share one backend *)

MaxSends == NonceMod - 2

\* accounts for which Transfer is called with opts.Nonce set, once each, and
\* the largest nonce so chosen
MaxChosen == 1
MaxChosenNonce == 1

\* the accounts Transfer is called for (opts.From): one that is handled and
\* one that is not
TransferAccounts == {"A", "X"}

\* Transfer returned: the caller is at rest again, its locals gone
Returns(c) ==
    /\ pc' = [pc EXCEPT ![c] = "idle"]
    /\ from' = [from EXCEPT ![c] = "A"]
    /\ nonce' = [nonce EXCEPT ![c] = 0]

\* part_002 lines 42-56 and backend.go lines 67-71: Transfer is called with
\* opts.Nonce nil for any account and calls ct.PendingNonceAt; the inner
\* backend answers.  On an error Transfer returns; otherwise the caller
\* stands before the map read of line 73 with the inner nonce in nonce.
\* The inner backend reports at most the number of transactions it accepted
\* for a handled address.  overlap records that a Transfer of another
\* caller for the address is under way.
TransferPendingNonceAt(c) ==
    /\ pc[c] = "idle"
    /\ \E a \in TransferAccounts, innerErr \in InnerErrors \cup {ErrNil} :
       \E innerNonce \in { n \in Uint64 :
                              n = 0 \/ (a \in handleAddresses
                                           /\ n <= Len(sent[a])) } :
        LET r == PendingNonceAt(addressNonce, a, innerNonce, innerErr)
        IN  IF r.err # ErrNil
            THEN UNCHANGED <<pc, from, nonce, overlap>>
            ELSE /\ pc' = [pc EXCEPT ![c] = "PendingNonceAt"]
                 /\ from' = [from EXCEPT ![c] = a]
                 /\ nonce' = [nonce EXCEPT ![c] = innerNonce]
                 /\ overlap' = IF /\ a \in handleAddresses
                                  /\ \E d \in Callers \ {c} :
                                        pc[d] # "idle" /\ from[d] = a
                               THEN overlap \cup {a} ELSE overlap
    /\ UNCHANGED <<backendVars, sent, failedSends, chosen>>
    /\ UNCHANGED <<blockVars, gasVars, wrapped, applied, waitTx, blockFetch>>

\* part_002 lines 42-52 and 57-59: Transfer is called with opts.Nonce set;
\* the nonce is the caller's and PendingNonceAt is not called
TransferChosenNonce(c) ==
    /\ pc[c] = "idle"
    /\ Cardinality(chosen) < MaxChosen
    /\ \E a \in TransferAccounts \ chosen, n \in 0 .. MaxChosenNonce :
        /\ pc' = [pc EXCEPT ![c] = "hasNonce"]
        /\ from' = [from EXCEPT ![c] = a]
        /\ nonce' = [nonce EXCEPT ![c] = n]
        /\ overlap' = IF /\ a \in handleAddresses
                         /\ \E d \in Callers \ {c} :
                               pc[d] # "idle" /\ from[d] = a
                      THEN overlap \cup {a} ELSE overlap
        /\ chosen' = chosen \cup {a}
    /\ UNCHANGED <<backendVars, sent, failedSends>>
    /\ UNCHANGED <<blockVars, gasVars, wrapped, applied, waitTx, blockFetch>>

\* backend.go lines 73-84 up to the write of line 79: the map is read and
\* the result decided from what was read.  When the inner nonce is larger
\* the caller stands before the write, otherwise PendingNonceAt returns.
PendingNonceAtReads(c) ==
    /\ pc[c] = "PendingNonceAt"
    /\ LET r == PendingNonceAt(addressNonce, from[c], nonce[c], ErrNil)
       IN  IF r.addressNonce # addressNonce
           THEN /\ pc' = [pc EXCEPT ![c] = "PendingNonceAt.store"]
                /\ nonce' = [nonce EXCEPT ![c] = r.addressNonce[from[c]]]
           ELSE /\ pc' = [pc EXCEPT ![c] = "hasNonce"]
                /\ nonce' = [nonce EXCEPT ![c] = r.nonce]
    /\ UNCHANGED <<backendVars, from, sent, failedSends, overlap, chosen>>
    /\ UNCHANGED <<blockVars, gasVars, wrapped, applied, waitTx, blockFetch>>

\* backend.go lines 79 and 84: the nonce is written, whatever the map holds
\* by now, and returned
PendingNonceAtStores(c) ==
    /\ pc[c] = "PendingNonceAt.store"
    /\ addressNonce' = [addressNonce EXCEPT ![from[c]] = nonce[c]]
    /\ pc' = [pc EXCEPT ![c] = "hasNonce"]
    /\ UNCHANGED <<last, obs, hist, scen, from, nonce, sent, failedSends,
                   overlap, chosen>>
    /\ UNCHANGED <<blockVars, gasVars, wrapped, applied, waitTx, blockFetch>>

\* part_002 lines 60-85: SuggestGasPrice, EstimateGas or opts.Signer fails
\* or there is no signer: Transfer returns the error without sending
TransferAbort(c) ==
    /\ pc[c] = "hasNonce"
    /\ Returns(c)
    /\ UNCHANGED <<backendVars, sent, failedSends, overlap, chosen>>
    /\ UNCHANGED <<blockVars, gasVars, wrapped, applied, waitTx, blockFetch>>

\* part_002 lines 78-89 and backend.go lines 103-107: the transaction is
\* signed for opts.From and sent; the inner backend refuses it, and Transfer
\* returns the error, or accepts it, and the caller stands before
\* incrementNonce
TransferSendTransaction(c) ==
    /\ pc[c] = "hasNonce"
    /\ \E innerErr \in InnerErrors \cup {ErrNil} :
        LET a  == from[c]
            tx == [signer |-> a, nonce |-> nonce[c]]
            r  == SendTransaction(addressNonce, tx, innerErr)
        IN  IF r.err # ErrNil
            THEN /\ failedSends' =
                      IF a \in handleAddresses
                      THEN [failedSends EXCEPT ![a] = {tx.nonce}]
                      ELSE failedSends
                 /\ Returns(c)
                 /\ UNCHANGED sent
            ELSE /\ a \in handleAddresses => Len(sent[a]) < MaxSends
                 /\ sent' = IF a \in handleAddresses
                            THEN [sent EXCEPT ![a] = Append(@, tx.nonce)]
                            ELSE sent
                 /\ failedSends' = IF a \in handleAddresses
                                   THEN [failedSends EXCEPT ![a] = {}]
                                   ELSE failedSends
                 /\ pc' = [pc EXCEPT ![c] = "incrementNonce"]
                 /\ UNCHANGED <<from, nonce>>
    /\ UNCHANGED <<backendVars, overlap, chosen>>
    /\ UNCHANGED <<blockVars, gasVars, wrapped, applied, waitTx, blockFetch>>

\* backend.go lines 114-126: the sender is recovered, the map read and the
\* new nonce compared with what was read.  When it is larger the caller
\* stands before the write of line 127 with the new nonce in nonce,
\* otherwise SendTransaction and Transfer return.
IncrementNonceReads(c) ==
    /\ pc[c] = "incrementNonce"
    /\ LET tx == [signer |-> from[c], nonce |-> nonce[c]]
           b  == incrementNonce(addressNonce, tx)
       IN  IF b # addressNonce
           THEN /\ pc' = [pc EXCEPT ![c] = "incrementNonce.store"]
                /\ nonce' = [nonce EXCEPT ![c] = b[from[c]]]
                /\ UNCHANGED from
           ELSE Returns(c)
    /\ UNCHANGED <<backendVars, sent, failedSends, overlap, chosen>>
    /\ UNCHANGED <<blockVars, gasVars, wrapped, applied, waitTx, blockFetch>>

\* backend.go lines 127 and 109-111, part_002 line 89: the new nonce is
\* written, whatever the map holds by now, and Transfer returns
IncrementNonceStores(c) ==
    /\ pc[c] = "incrementNonce.store"
    /\ addressNonce' = [addressNonce EXCEPT ![from[c]] = nonce[c]]
    /\ Returns(c)
    /\ UNCHANGED <<last, obs, hist, scen, sent, failedSends, overlap, chosen>>
    /\ UNCHANGED <<blockVars, gasVars, wrapped, applied, waitTx, blockFetch>>

\* backend.go lines 73, 79, 120, 127: the map has no lock.  When one caller
\* is about to write it and another to read or write it, the two accesses
\* may overlap; the Go runtime then may stop the process ("fatal error:
\* concurrent map writes", "concurrent map read and map write").  When it
\* does not, the accesses take effect one after the other, which the other
\* actions give.
MapRaceFatal ==
    /\ \E c \in Callers :
        /\ pc[c] \in {"PendingNonceAt.store", "incrementNonce.store"}
        /\ \E d \in Callers \ {c} :
              pc[d] \in {"PendingNonceAt", "PendingNonceAt.store",
                         "incrementNonce", "incrementNonce.store"}
    /\ pc' = [c \in Callers |-> "fatal"]
    /\ from' = [c \in Callers |-> "A"]
    /\ nonce' = [c \in Callers |-> 0]
    /\ UNCHANGED <<backendVars, sent, failedSends, overlap, chosen>>
    /\ UNCHANGED <<blockVars, gasVars, wrapped, applied, waitTx, blockFetch>>

\* one caller: successive Transfer invocations are serialized
NextSerial ==
    \/ TransferPendingNonceAt(1)
    \/ TransferChosenNonce(1)
    \/ PendingNonceAtReads(1)
    \/ PendingNonceAtStores(1)
    \/ TransferAbort(1)
    \/ TransferSendTransaction(1)
    \/ IncrementNonceReads(1)
    \/ IncrementNonceStores(1)

SpecSerial == Init /\ [][NextSerial]_vars

\* two callers whose Transfer invocations interleave at every access to the
\* inner backend and to the map
NextConcurrent ==
    \/ \E c \in Callers : TransferPendingNonceAt(c)
    \/ \E c \in Callers : TransferChosenNonce(c)
    \/ \E c \in Callers : PendingNonceAtReads(c)
    \/ \E c \in Callers : PendingNonceAtStores(c)
    \/ \E c \in Callers : TransferAbort(c)
    \/ \E c \in Callers : TransferSendTransaction(c)
    \/ \E c \in Callers : IncrementNonceReads(c)
    \/ \E c \in Callers : IncrementNonceStores(c)
    \/ MapRaceFatal

SpecConcurrent == Init /\ [][NextConcurrent]_vars

----------------------------------------------------------------------------
(* Properties of HandleNonceBackend *)

IsQuery == last.op = "PendingNonceAt"

IsSend == last.op = "SendTransaction"

\* C1: over any sequence of PendingNonceAt and SendTransaction calls,
\* successful or failed, the stored nonce of every handled address never
\* decreases (and the address stays in the map).
C1_WatermarkNeverDecreases ==
    [][\A a \in handleAddresses :
          /\ a \in DOMAIN addressNonce'
          /\ addressNonce'[a] >= addressNonce[a]]_vars

\* a successful send whose nonce + 1 is below the stored nonce left it alone
C1_Witness ==
    /\ IsSend /\ last.err = ErrNil
    /\ last.tx.signer \in handleAddresses
    /\ last.tx.nonce + 1 < last.before[last.tx.signer]
    /\ addressNonce[last.tx.signer] = last.before[last.tx.signer]

\* C2, as stated: a successful PendingNonceAt(A) that immediately follows a
\* successful SendTransaction of nonce N signed by handled address A returns
\* a value >= N + 1, for every N.
C2_Original ==
    [][(/\ IsSend /\ last.err = ErrNil
        /\ last.tx.signer \in handleAddresses
        /\ last'.op = "PendingNonceAt" /\ last'.err = ErrNil
        /\ last'.account = last.tx.signer)
       => last'.nonce >= last.tx.nonce + 1]_vars

\* C2, amended: the same for every N below the largest uint64, whatever the
\* inner backend reports.
C2_QueryAfterSend ==
    [][(/\ IsSend /\ last.err = ErrNil
        /\ last.tx.signer \in handleAddresses
        /\ last.tx.nonce < MaxUint64
        /\ last'.op = "PendingNonceAt" /\ last'.err = ErrNil
        /\ last'.account = last.tx.signer)
       => last'.nonce >= last.tx.nonce + 1]_vars

\* a query, a send of n1 and a query happened, the inner backend reporting
\* at most n1 both times; the second query returned n1 + 1
C2_Witness ==
    /\ scen.step = 3
    /\ IsQuery /\ last.err = ErrNil
    /\ last.innerNonce <= scen.n1
    /\ last.nonce = scen.n1 + 1

\* C3: a successful PendingNonceAt of a handled address returns
\* max(inner value, stored nonce), and the stored nonce afterwards equals the
\* returned value: raised to the inner value when that is larger, otherwise
\* unchanged.
C3_QueryReturnsMax ==
    (IsQuery /\ last.err = ErrNil /\ last.account \in handleAddresses) =>
        LET a == last.account
        IN  /\ last.nonce = Max(last.innerNonce, last.before[a])
            /\ addressNonce[a] = last.nonce
            /\ last.innerNonce > last.before[a] => addressNonce[a] = last.innerNonce
            /\ last.innerNonce <= last.before[a] => addressNonce[a] = last.before[a]

\* a query raised a non-zero stored nonce to a larger inner value
C3_Witness ==
    /\ IsQuery /\ last.err = ErrNil /\ last.account \in handleAddresses
    /\ last.before[last.account] > 0
    /\ last.innerNonce > last.before[last.account]
    /\ addressNonce[last.account] = last.innerNonce

ScenarioHolds ==
    /\ scen.step = 1 => last.nonce = scen.inner
    /\ scen.step \in {3, 5} => last.nonce = scen.n1 + 1

\* C4, as stated: after a successful SendTransaction signed by a handled
\* address the stored nonce equals max(stored nonce before, tx.nonce + 1), the
\* sum taken in the integers; and in the scenario (inner value always i, send
\* n1, send a smaller nonce) the three queries return i, n1 + 1, n1 + 1.
C4_Original ==
    /\ (IsSend /\ last.err = ErrNil /\ last.tx.signer \in handleAddresses) =>
          addressNonce[last.tx.signer] =
              Max(last.before[last.tx.signer], last.tx.nonce + 1)
    /\ ScenarioHolds

\* C4, amended: the same with tx.nonce + 1 taken as the uint64 sum, which is
\* tx.nonce + 1 below the largest uint64 and 0 at the largest uint64.
C4_SendRaisesToMax ==
    /\ (IsSend /\ last.err = ErrNil /\ last.tx.signer \in handleAddresses) =>
          addressNonce[last.tx.signer] =
              Max(last.before[last.tx.signer], Add64(last.tx.nonce, 1))
    /\ ScenarioHolds

\* the whole scenario ran with 0 < i < n1: query, send n1, query,
\* send n2 < n1, query
C4_Witness ==
    /\ scen.step = 5
    /\ scen.inner > 0 /\ scen.n1 > scen.inner
    /\ IsQuery /\ last.nonce = scen.n1 + 1
    /\ last.innerNonce = scen.inner
    /\ addressNonce[scen.account] = scen.n1 + 1

\* C5: when the inner SendTransaction fails, SendTransaction returns that
\* error, calls the inner backend once, and leaves every stored nonce
\* unchanged, so that any following PendingNonceAt gives the result it would
\* have given without the failed send.
C5_FailedSendChangesNothing ==
    (IsSend /\ last.innerErr # ErrNil) =>
        /\ last.err = last.innerErr
        /\ last.calls = 1
        /\ addressNonce = last.before
        /\ \A a \in Accounts, n \in Uint64 :
              PendingNonceAt(addressNonce, a, n, ErrNil).nonce =
              PendingNonceAt(last.before, a, n, ErrNil).nonce

\* a failed send from a handled address whose nonce + 1 exceeds the stored one
C5_Witness ==
    /\ IsSend /\ last.innerErr # ErrNil
    /\ last.tx.signer \in handleAddresses
    /\ last.tx.nonce < MaxUint64
    /\ last.tx.nonce + 1 > last.before[last.tx.signer]
    /\ addressNonce[last.tx.signer] = last.before[last.tx.signer]

\* C6: when the inner PendingNonceAt fails, PendingNonceAt returns that
\* error, for handled and other accounts alike, and leaves every stored nonce
\* unchanged.
C6_FailedQueryChangesNothing ==
    (IsQuery /\ last.innerErr # ErrNil) =>
        /\ last.err = last.innerErr
        /\ addressNonce = last.before

\* a failed query of a handled address whose inner value exceeds the stored one
C6_Witness ==
    /\ IsQuery /\ last.innerErr # ErrNil
    /\ last.account \in handleAddresses
    /\ last.innerNonce > last.before[last.account]
    /\ addressNonce = last.before

\* C7: for an account that is not handled, PendingNonceAt returns exactly
\* what the inner backend returned, on every call, and a SendTransaction
\* signed by such an account returns the inner result and changes no stored
\* nonce.
C7_PassThrough ==
    /\ (IsQuery /\ last.account \notin handleAddresses) =>
          /\ last.nonce = last.innerNonce
          /\ last.err = last.innerErr
          /\ last.calls = 1
          /\ addressNonce = last.before
    /\ (IsSend /\ Sender(last.tx).err = ErrNil
               /\ Sender(last.tx).from \notin handleAddresses) =>
          /\ last.err = last.innerErr
          /\ last.calls = 1
          /\ addressNonce = last.before

\* two successive queries of the account that is not handled, the second
\* returning less than the first, on a backend that stores a non-zero nonce
C7_Witness ==
    /\ obs \notin handleAddresses
    /\ hist # <<>>
    /\ IsQuery /\ last.err = ErrNil /\ last.account = obs
    /\ last.nonce < hist[1].ret
    /\ \E a \in handleAddresses : addressNonce[a] > 0

\* C8: for a handled address, when the inner value of a successful
\* PendingNonceAt is not below the inner value of the previous successful
\* PendingNonceAt of that address, the returned nonce is not below the
\* previously returned one, and it is never below the inner value.
C8_QueriesNonDecreasing ==
    (IsQuery /\ last.err = ErrNil /\ last.account = obs
             /\ obs \in handleAddresses) =>
        /\ last.nonce >= last.innerNonce
        /\ (hist # <<>> /\ last.innerNonce >= hist[1].inner) =>
              last.nonce >= hist[1].ret

\* two successive queries of a handled address with non-decreasing inner
\* values, the second returning more than the first and more than the inner
\* value
C8_Witness ==
    /\ obs \in handleAddresses
    /\ hist # <<>>
    /\ IsQuery /\ last.err = ErrNil /\ last.account = obs
    /\ last.innerNonce >= hist[1].inner
    /\ last.nonce > hist[1].ret
    /\ last.nonce > last.innerNonce

----------------------------------------------------------------------------
(* Properties of the nonce sequence produced through Transfer *)

Consecutive(s) == \A i \in 2 .. Len(s) : s[i] = s[i - 1] + 1

\* C9: with one caller that sends exactly the nonce PendingNonceAt returned
\* (no Transfer for the address was given a nonce of the caller's choice),
\* and an inner backend that reports at most the number of transactions it
\* accepted for the address, the accepted nonces of each handled address are
\* consecutive, and after a failed send the caller obtains the nonce of the
\* failed send again.
C9_GapFreeWhenSerialized ==
    \A a \in handleAddresses \ chosen :
        /\ Consecutive(sent[a])
        /\ (pc[1] = "hasNonce" /\ from[1] = a) =>
              /\ Len(sent[a]) > 0 => nonce[1] = sent[a][Len(sent[a])] + 1
              /\ \A n \in failedSends[a] : nonce[1] = n

\* two transactions were accepted for an address, the next send failed,
\* and the caller has obtained the nonce of the failed send again
C9_Witness ==
    \E a \in handleAddresses \ chosen :
        /\ Len(sent[a]) >= 2
        /\ pc[1] = "hasNonce" /\ from[1] = a
        /\ failedSends[a] = {nonce[1]}

\* C10: with two callers whose Transfer calls interleave, the accepted
\* nonces of an address can contain a duplicate or a gap; when every nonce
\* sent for the address came from PendingNonceAt, this happens only for an
\* address for which one caller began a Transfer while a Transfer of the
\* other was under way.
C10_DuplicateOnlyWhenInterleaved ==
    \A a \in handleAddresses \ chosen :
        ~Consecutive(sent[a]) => a \in overlap

\* both callers obtained the same nonce and both sent it successfully
C10_Witness ==
    \E a \in handleAddresses \ chosen :
        /\ a \in overlap
        /\ Len(sent[a]) >= 2
        /\ \E i \in 1 .. Len(sent[a]) - 1 : sent[a][i] = sent[a][i + 1]

----------------------------------------------------------------------------
(* Part 2: Close, closeOnce and cancelOnClose, as BlockSource and          *)
(* GasPriceEstimator both have them                                        *)

\* closeOnce.Do(f): the first caller runs f, a caller that arrives while f
\* runs waits until f is over, every later caller returns without running f
OnceDoAlwaysRuns(once) == "run"

OnceDoNeverWaits(once) == IF once = "fresh" THEN "run" ELSE "skip"

OnceDo(once) ==
    IF once = "fresh" THEN "run"
    ELSE IF once = "running" THEN "wait"
    ELSE "skip"

\* Close, from the call to the point where the caller waits or returns:
\* in f, close(closed) and then wg.Wait
CloseCall(lc, c) ==
    LET branch == OnceDo(lc.once)
        called == [lc EXCEPT !.calls = @ + 1]
    IN  IF branch = "run"
        THEN [called EXCEPT !.once = "running",
                            !.panicked = @ \/ lc.closed,
                            !.closed = TRUE,
                            !.caller[c] = "wg.Wait"]
        ELSE IF branch = "wait"
        THEN [called EXCEPT !.caller[c] = "closeOnce.Do"]
        ELSE [called EXCEPT !.returned = TRUE]

WaitDoneAtOnce(lc) == TRUE

\* wg.Wait returns when the counter of wg is zero
WaitDone(lc) == lc.wg = 0

\* wg.Wait returns, f is over, Close returns
CloseReturn(lc, c) ==
    [lc EXCEPT !.once = "done", !.caller[c] = "out", !.returned = TRUE]

\* closeOnce.Do returns to a caller that waited for the f of another caller
CloseResume(lc, c) ==
    [lc EXCEPT !.caller[c] = "out", !.returned = TRUE]

CancelOnCloseWithoutCancel(lc) ==
    [lc EXCEPT !.wg = @ - 1, !.cancelOnCloseExited = TRUE]

\* the goroutine of cancelOnClose once closed is closed: the deferred
\* cancel() and then the deferred wg.Done()
CancelOnClose(lc) ==
    [lc EXCEPT !.ctxDone = TRUE, !.wg = @ - 1, !.cancelOnCloseExited = TRUE]

----------------------------------------------------------------------------
(* Part 3: blocksource.BlockSource (src/blocksource/blocksource.go)        *)

\* largest Config.Confirmations
MaxConfirmations == 2

\* blocks the chain gains while the source runs
MaxGrowth == 2

\* how far the answer of the node may lag behind its most recent block
MaxLag == 1

\* the node's most recent block when New is called
InitialHeads == {1, 10}

\* Config.StartBlock, relative to the node's most recent block
StartOffsets == {-2, 1}

\* the configurations New is called with; closeAfter is the number of
\* blocks after which the consumer calls Close, if it ever does
StartBlocks(head) ==
    {None} \cup { Some(head + d) : d \in { x \in StartOffsets : head + x >= 0 } }

ClosePlans == {None, Some(1), Some(2)}

Configs ==
    UNION { [StartBlock : StartBlocks(h),
             Confirmations : 0 .. MaxConfirmations,
             head : {h},
             closeAfter : ClosePlans] : h \in InitialHeads }

needToGetMostRecentBlockNumberNoMargin(currentBlockNumber, recentBlockNumber, confirmations) ==
    /\ confirmations > 0
    /\ \/ recentBlockNumber = None
       \/ Val(recentBlockNumber) < confirmations

needToGetMostRecentBlockNumberAnyConfirmations(currentBlockNumber, recentBlockNumber, confirmations) ==
    \/ recentBlockNumber = None
    \/ Val(recentBlockNumber) < confirmations
    \/ /\ currentBlockNumber # None
       /\ Val(currentBlockNumber) + confirmations > Val(recentBlockNumber)

needToGetMostRecentBlockNumber(currentBlockNumber, recentBlockNumber, confirmations) ==
    /\ confirmations > 0
    /\ \/ recentBlockNumber = None
       \/ Val(recentBlockNumber) < confirmations
       \/ /\ currentBlockNumber # None
          /\ Val(currentBlockNumber) + confirmations > Val(recentBlockNumber)

\* what the node may report as its most recent block
NodeHeads == { h \in (chainHead - MaxLag) .. chainHead : h >= 0 }

\* the deferred calls of the goroutine, in the order they run
DeferredDoneFirst == <<"wg.Done", "close(blocks)">>

Deferred == <<"close(blocks)", "wg.Done">>

CallBlockByNumberAtHead(g) ==
    [g EXCEPT !.currBlkNumber =
                  IF g.recentBlkNumber # None /\ g.currBlkNumber = None
                  THEN g.recentBlkNumber
                  ELSE @,
              !.pc = "BlockByNumber"]

\* lines 117-121: the cursor is derived from the head if it is still nil,
\* and BlockByNumber is called
CallBlockByNumber(g) ==
    [g EXCEPT !.currBlkNumber =
                  IF g.recentBlkNumber # None /\ g.currBlkNumber = None
                  THEN Some(Val(g.recentBlkNumber) - cfg.Confirmations)
                  ELSE @,
              !.pc = "BlockByNumber"]

\* the record of a BlockByNumber call made by goroutine state g
RecordFetch(h, g) ==
    [h EXCEPT !.fetchHead = g.recentBlkNumber,
              !.firstFetch = IF @ = None THEN Some(g.currBlkNumber) ELSE @]

GotBlockCursorKept(g, n) ==
    [g EXCEPT !.b = Some(n), !.pc = "deliver"]

GotBlockFetchesOn(g, n) ==
    [g EXCEPT !.currBlkNumber = Some(n + 1), !.b = Some(n), !.pc = "loop"]

\* lines 130-133: BlockByNumber returned block n; the cursor moves past it
\* and the block is offered on the channel
GotBlock(g, n) ==
    [g EXCEPT !.currBlkNumber = Some(n + 1), !.b = Some(n), !.pc = "deliver"]

\* the errors of BlockByNumber the loop tells apart (line 123)
BlockByNumberErrors == {"ErrNotFound", "error"}

BackoffSkipsBlock(g) ==
    [g EXCEPT !.delayBeforeIteration = TRUE, !.pc = "loop",
              !.currBlkNumber = IF @ = None THEN @ ELSE Some(Val(@) + 1)]

BackoffWithoutDelay(g) == [g EXCEPT !.pc = "loop"]

BackoffGivesUp(g) == [g EXCEPT !.pc = "exited"]

\* lines 108-109, 112-113 and 126-127: delayBeforeIteration = true; continue
Backoff(g) ==
    [g EXCEPT !.delayBeforeIteration = TRUE, !.pc = "loop"]

\* the record of a failure of kind op met by goroutine state g
RecordFailure(h, op, g) ==
    [h EXCEPT !.failure = Some([op |-> op, cursor |-> g.currBlkNumber])]

InitBlockSource ==
    /\ cfg \in Configs
    /\ chainHead = cfg.head
    /\ bs = [NoBlockSource EXCEPT !.pc = "loop", !.currBlkNumber = cfg.StartBlock]
    /\ bsClose = NewLifecycle
    /\ consumer = [pc |-> "receive", received |-> 0]
    /\ bsHist = NewBlockHistory
    /\ GasPriceEstimatorAbsent
    /\ BackendIdle

\* the node gains a block
ChainGrows ==
    /\ bs.pc # "none"
    /\ chainHead < cfg.head + MaxGrowth
    /\ chainHead' = chainHead + 1
    /\ UNCHANGED <<cfg, bs, bsClose, consumer, bsHist, nonceVars, gasVars>>

\* line 98: the timer of the delay fires
LoopDelayElapsed ==
    /\ bs.pc = "loop"
    /\ bs.delayBeforeIteration
    /\ bs' = [bs EXCEPT !.delayBeforeIteration = FALSE]
    /\ UNCHANGED <<cfg, chainHead, bsClose, consumer, bsHist, nonceVars, gasVars>>

\* line 96: the context is cancelled during the delay
LoopDelayCancelled ==
    /\ bs.pc = "loop"
    /\ bs.delayBeforeIteration
    /\ bsClose.ctxDone
    /\ bs' = [bs EXCEPT !.pc = "return", !.deferred = Deferred]
    /\ UNCHANGED <<cfg, chainHead, bsClose, consumer, bsHist, nonceVars, gasVars>>

\* lines 103-121 with no delay pending: the loop calls BlockNumber if it
\* needs the head, and BlockByNumber otherwise
LoopIteration ==
    /\ bs.pc = "loop"
    /\ ~bs.delayBeforeIteration
    /\ IF needToGetMostRecentBlockNumber(bs.currBlkNumber, bs.recentBlkNumber,
                                         cfg.Confirmations)
       THEN /\ bs' = [bs EXCEPT !.pc = "BlockNumber"]
            /\ bsHist' = [bsHist EXCEPT !.headQueries = TRUE]
       ELSE /\ bs' = CallBlockByNumber(bs)
            /\ bsHist' = RecordFetch(bsHist, bs')
    /\ UNCHANGED <<cfg, chainHead, bsClose, consumer, nonceVars, gasVars>>

\* lines 105-121: BlockNumber returns
BlockNumberReturns ==
    /\ bs.pc = "BlockNumber"
    /\ \/ /\ bs' = Backoff([bs EXCEPT !.recentBlkNumber = None])
          /\ bsHist' = RecordFailure(bsHist, "BlockNumber", bs)
       \/ \E h \in NodeHeads :
            LET g == [bs EXCEPT !.recentBlkNumber = Some(h)]
                seen == [bsHist EXCEPT
                           !.firstHead = IF @ = None THEN Some(h) ELSE @,
                           !.firstEligible =
                               IF @ = None /\ h >= cfg.Confirmations
                               THEN Some(h) ELSE @]
            IN  IF needToGetMostRecentBlockNumber(g.currBlkNumber,
                       g.recentBlkNumber, cfg.Confirmations)
                THEN /\ bs' = Backoff(g)
                     /\ bsHist' = RecordFailure([seen EXCEPT !.waited = TRUE],
                                                "insufficient", bs)
                ELSE /\ bs' = CallBlockByNumber(g)
                     /\ bsHist' = RecordFetch(seen, bs')
    /\ UNCHANGED <<cfg, chainHead, bsClose, consumer, nonceVars, gasVars>>

\* lines 121-130: BlockByNumber returns an error, ErrNotFound or a block;
\* nil as the number asks for the latest block
BlockByNumberReturns ==
    /\ bs.pc = "BlockByNumber"
    /\ \/ \E err \in BlockByNumberErrors :
            /\ bs' = Backoff(bs)
            /\ bsHist' = RecordFailure(bsHist, err, bs)
       \/ \E n \in 0 .. chainHead :
            /\ IF bs.currBlkNumber = None
               THEN n \in NodeHeads
               ELSE n = Val(bs.currBlkNumber)
            /\ bs' = GotBlock(bs, n)
            /\ bsHist' = [bsHist EXCEPT !.failure = None]
    /\ UNCHANGED <<cfg, chainHead, bsClose, consumer, nonceVars, gasVars>>

\* line 136: the consumer takes the block from the unbuffered channel
DeliverBlock ==
    /\ bs.pc = "deliver"
    /\ consumer.pc = "receive"
    /\ bs' = [bs EXCEPT !.b = None, !.pc = "loop"]
    /\ consumer' = [pc |-> "body", received |-> consumer.received + 1]
    /\ bsHist' = [bsHist EXCEPT
                    !.delivered = Append(@, [number |-> Val(bs.b),
                                             head |-> bsHist.fetchHead]),
                    !.lateSend = @ \/ bsClose.blocks > 0]
    /\ UNCHANGED <<cfg, chainHead, bsClose, nonceVars, gasVars>>

\* line 134: the context is cancelled while the block waits for a receiver
DeliverCancelled ==
    /\ bs.pc = "deliver"
    /\ bsClose.ctxDone
    /\ bs' = [bs EXCEPT !.pc = "return", !.deferred = Deferred]
    /\ UNCHANGED <<cfg, chainHead, bsClose, consumer, bsHist, nonceVars, gasVars>>

\* lines 80-81: the goroutine runs its next deferred call
RunDeferred ==
    /\ bs.pc = "return"
    /\ bs' = [bs EXCEPT !.deferred = Tail(@),
                        !.pc = IF Len(bs.deferred) = 1 THEN "exited" ELSE @]
    /\ bsClose' = IF Head(bs.deferred) = "wg.Done"
                  THEN [bsClose EXCEPT !.wg = @ - 1]
                  ELSE [bsClose EXCEPT !.blocks = @ + 1,
                                       !.panicked = @ \/ bsClose.blocks > 0]
    /\ UNCHANGED <<cfg, chainHead, consumer, bsHist, nonceVars, gasVars>>

\* the goroutine of cancelOnClose
BlockSourceCancelOnClose ==
    /\ bsClose.closed
    /\ ~bsClose.cancelOnCloseExited
    /\ bsClose' = CancelOnClose(bsClose)
    /\ UNCHANGED <<cfg, chainHead, bs, consumer, bsHist, nonceVars, gasVars>>

\* the body of the consumer's loop: after closeAfter blocks it calls
\* Close, then it receives again
ConsumerBody ==
    /\ consumer.pc = "body"
    /\ IF cfg.closeAfter = Some(consumer.received)
       THEN /\ bsClose' = CloseCall(bsClose, "consumer")
            /\ consumer' = [consumer EXCEPT !.pc =
                              IF bsClose'.caller["consumer"] = "out"
                              THEN "receive" ELSE "Close"]
       ELSE /\ consumer' = [consumer EXCEPT !.pc = "receive"]
            /\ UNCHANGED bsClose
    /\ UNCHANGED <<cfg, chainHead, bs, bsHist, nonceVars, gasVars>>

\* the consumer's range loop ends on the closed channel
ConsumerEnds ==
    /\ consumer.pc = "receive"
    /\ bsClose.blocks > 0
    /\ consumer' = [consumer EXCEPT !.pc = "ended"]
    /\ UNCHANGED <<cfg, chainHead, bs, bsClose, bsHist, nonceVars, gasVars>>

\* another goroutine calls Close
BlockSourceClose ==
    /\ bs.pc # "none"
    /\ bsClose.caller["owner"] = "out"
    /\ bsClose.calls < MaxCloseCalls
    /\ bsClose' = CloseCall(bsClose, "owner")
    /\ UNCHANGED <<cfg, chainHead, bs, consumer, bsHist, nonceVars, gasVars>>

\* lines 67-69: wg.Wait returns, the client is closed, Close returns
BlockSourceCloseReturns(c) ==
    /\ bsClose.caller[c] = "wg.Wait"
    /\ WaitDone(bsClose)
    /\ bsClose' = [CloseReturn(bsClose, c) EXCEPT !.client = @ + 1]
    /\ consumer' = IF c = "consumer"
                   THEN [consumer EXCEPT !.pc = "receive"] ELSE consumer
    /\ UNCHANGED <<cfg, chainHead, bs, bsHist, nonceVars, gasVars>>

\* Close returns to a caller that waited in closeOnce.Do
BlockSourceCloseResumes(c) ==
    /\ bsClose.caller[c] = "closeOnce.Do"
    /\ bsClose.once = "done"
    /\ bsClose' = CloseResume(bsClose, c)
    /\ consumer' = IF c = "consumer"
                   THEN [consumer EXCEPT !.pc = "receive"] ELSE consumer
    /\ UNCHANGED <<cfg, chainHead, bs, bsHist, nonceVars, gasVars>>

NextBlockSource ==
    \/ ChainGrows
    \/ LoopDelayElapsed
    \/ LoopDelayCancelled
    \/ LoopIteration
    \/ BlockNumberReturns
    \/ BlockByNumberReturns
    \/ DeliverBlock
    \/ DeliverCancelled
    \/ RunDeferred
    \/ BlockSourceCancelOnClose
    \/ ConsumerBody
    \/ ConsumerEnds
    \/ BlockSourceClose
    \/ \E c \in Closers : BlockSourceCloseReturns(c)
    \/ \E c \in Closers : BlockSourceCloseResumes(c)

SpecBlockSource == InitBlockSource /\ [][NextBlockSource]_vars

\* ExampleNew: a start block behind the head, one confirmation, and a
\* consumer that calls Close from its loop
ExampleConfigs ==
    { c \in Configs : /\ c.StartBlock # None
                      /\ c.Confirmations = 1
                      /\ c.closeAfter # None }

InitExample ==
    /\ InitBlockSource
    /\ cfg \in ExampleConfigs

\* every goroutine that can take a step is scheduled; a select takes a
\* ready case at random, so the ctx.Done case of the delay, ready each
\* time the loop comes back to it, is taken at some point
FairBlockSource ==
    /\ WF_vars(LoopIteration)
    /\ WF_vars(BlockNumberReturns)
    /\ WF_vars(BlockByNumberReturns)
    /\ SF_vars(LoopDelayCancelled)
    /\ WF_vars(DeliverCancelled)
    /\ WF_vars(RunDeferred)
    /\ WF_vars(BlockSourceCancelOnClose)
    /\ WF_vars(ConsumerBody)
    /\ WF_vars(ConsumerEnds)
    /\ \A c \in Closers : WF_vars(BlockSourceCloseReturns(c))
    /\ \A c \in Closers : WF_vars(BlockSourceCloseResumes(c))

SpecExample == InitExample /\ [][NextBlockSource]_vars /\ FairBlockSource

\* the node answers BlockNumber with its most recent block
HeadQuerySucceeds ==
    /\ BlockNumberReturns
    /\ bs'.recentBlkNumber = Some(chainHead)

\* the node answers BlockByNumber with the block
BlockFetchSucceeds ==
    /\ BlockByNumberReturns
    /\ bs'.pc = "deliver"

\* the timer fires, the goroutine and the consumer are scheduled, the
\* calls to the node return, and of the calls made again and again some
\* succeed
FairStream ==
    /\ WF_vars(LoopDelayElapsed)
    /\ WF_vars(LoopIteration)
    /\ WF_vars(BlockNumberReturns)
    /\ WF_vars(BlockByNumberReturns)
    /\ SF_vars(HeadQuerySucceeds)
    /\ SF_vars(BlockFetchSucceeds)
    /\ WF_vars(DeliverBlock)
    /\ WF_vars(ConsumerBody)

SpecStream == SpecBlockSource /\ FairStream

\* largest block number needToGetMostRecentBlockNumber is applied to
MaxNumber == 4

\* a *big.Int that holds a block number, or nil
BlockNumbers == {None} \cup { Some(n) : n \in 0 .. MaxNumber }

\* needToGetMostRecentBlockNumber is about to be applied to its arguments;
\* confirmations is any big.Int, of either sign
InitNeed ==
    /\ \E currentBlockNumber \in BlockNumbers, recentBlockNumber \in BlockNumbers,
          confirmations \in -1 .. MaxConfirmations :
            applied = [f |-> "needToGetMostRecentBlockNumber",
                       args |-> <<currentBlockNumber, recentBlockNumber,
                                  confirmations>>,
                       result |-> FALSE,
                       done |-> FALSE]
    /\ InitUnobserved
    /\ wrapped = ReturnedBackend(FALSE)
    /\ waitTx = NoWait
    /\ blockFetch = NoBlockFetch
    /\ BlockSourceAbsent
    /\ GasPriceEstimatorAbsent

\* lines 143-151: the function returns
ApplyNeed ==
    /\ applied.f = "needToGetMostRecentBlockNumber"
    /\ ~applied.done
    /\ applied' = [applied EXCEPT
                     !.result = needToGetMostRecentBlockNumber(
                                    applied.args[1], applied.args[2],
                                    applied.args[3]),
                     !.done = TRUE]
    /\ UNCHANGED <<backendVars, transferVars, wrapped, waitTx, blockFetch,
                   blockVars, gasVars>>

\* the function on its own, and the loop that calls it
SpecNeed ==
    (InitNeed \/ InitBlockSource) /\ [][ApplyNeed \/ NextBlockSource]_vars

----------------------------------------------------------------------------
(* Part 4: gasestimator.GasPriceEstimator                                  *)
(* (src/gasestimator/gaspriceestimator.go)                                 *)

\* largest price the node suggests
MaxPrice == 2

Prices == 1 .. MaxPrice

CanLockWithReaders(e) == ~e.writer

\* rwMutex.Lock is granted when no reader and no writer holds the mutex
CanLock(e) == e.readLocks = 0 /\ ~e.writer

\* rwMutex.RLock is granted when no writer holds the mutex or waits in Lock
CanRLock(e) == ~e.writer /\ e.pc # "Lock"

FetchFailedExits(e) == [e EXCEPT !.pc = "exited"]

\* lines 90-93: the error is logged and the loop continues
FetchFailed(e) == [e EXCEPT !.pc = "select"]

FetchedNeverStored(e, p) == [e EXCEPT !.pc = "select"]

FetchedStoredAtOnce(e, p) ==
    [e EXCEPT !.gasPrice = Words(p), !.pc = "select"]

\* lines 94-97: the fetched price is compared with the stored one, and
\* the goroutine goes on to replace it if the two differ
Fetched(e, p) ==
    IF e.gasPrice # Words(p)
    THEN [e EXCEPT !.pc = "Lock", !.newGasPrice = p]
    ELSE [e EXCEPT !.pc = "select"]

\* newGasPriceEstimator has returned: the first price is stored and the
\* goroutine of runAsync is at its select
InitGasPrice ==
    /\ \E p \in Prices :
         /\ estimator = [NoEstimator EXCEPT !.pc = "select",
                                            !.gasPrice = Words(p)]
         /\ gpHist = [NewGasHistory EXCEPT !.initial = p]
    /\ gpClose = NewLifecycle
    /\ readers = NoReaders
    /\ nodePrice \in Prices
    /\ BlockSourceAbsent
    /\ BackendIdle

\* the price the node suggests changes
NodePriceChanges ==
    /\ estimator.pc # "none"
    /\ \E p \in Prices \ {nodePrice} : nodePrice' = p
    /\ UNCHANGED <<estimator, gpClose, readers, gpHist, nonceVars, blockVars>>

\* line 86: the timer of updateInterval fires and gasPricer.SuggestGasPrice
\* is called
EstimatorFetches ==
    /\ estimator.pc = "select"
    /\ estimator' = [estimator EXCEPT !.pc = "SuggestGasPrice"]
    /\ UNCHANGED <<gpClose, readers, gpHist, nonceVars, blockVars, nodePrice>>

\* lines 84-85 and 80: the context is cancelled, the goroutine returns and
\* its deferred wg.Done runs
EstimatorCancelled ==
    /\ estimator.pc = "select"
    /\ gpClose.ctxDone
    /\ estimator' = [estimator EXCEPT !.pc = "exited"]
    /\ gpClose' = [gpClose EXCEPT !.wg = @ - 1]
    /\ UNCHANGED <<readers, gpHist, nonceVars, blockVars, nodePrice>>

\* lines 89-96: the fetch returns an error, or the price the node suggests
\* when it answers, which is compared with the stored one
FetchReturns ==
    /\ estimator.pc = "SuggestGasPrice"
    /\ \/ /\ estimator' = FetchFailed(estimator)
          /\ gpHist' = [gpHist EXCEPT !.last = None, !.failed = TRUE]
       \/ /\ estimator' = Fetched(estimator, nodePrice)
          /\ gpHist' = [gpHist EXCEPT !.fetched = @ \cup {nodePrice},
                                      !.last = Some(nodePrice),
                                      !.failed = FALSE]
    /\ UNCHANGED <<gpClose, readers, nonceVars, blockVars, nodePrice>>

StoredWithoutUnlock(e) ==
    [e EXCEPT !.gasPrice = Words(e.newGasPrice), !.pc = "select"]

\* lines 98-99: the assignment and the Unlock
Stored(e) ==
    [e EXCEPT !.gasPrice = Words(e.newGasPrice), !.writer = FALSE,
              !.pc = "select"]

\* line 97: e.rwMutex.Lock()
EstimatorLocks ==
    /\ estimator.pc = "Lock"
    /\ CanLock(estimator)
    /\ estimator' = [estimator EXCEPT !.pc = "locked", !.writer = TRUE]
    /\ UNCHANGED <<gpClose, readers, gpHist, nonceVars, blockVars, nodePrice>>

\* lines 98-99: e.gasPrice = newGasPrice; e.rwMutex.Unlock()
EstimatorStores ==
    /\ estimator.pc = "locked"
    /\ estimator' = Stored(estimator)
    /\ UNCHANGED <<gpClose, readers, gpHist, nonceVars, blockVars, nodePrice>>

\* lines 66-68: a caller of SuggestGasPrice takes the read lock and starts
\* to copy e.gasPrice
ReadBegins(r) ==
    /\ estimator.pc # "none"
    /\ readers[r].pc = "out"
    /\ CanRLock(estimator)
    /\ estimator' = [estimator EXCEPT !.readLocks = @ + 1]
    /\ readers' = [readers EXCEPT ![r] =
                     [@ EXCEPT !.pc = "copying",
                               !.word = estimator.gasPrice[1],
                               !.afterClose = gpClose.returned]]
    /\ UNCHANGED <<gpClose, gpHist, nonceVars, blockVars, nodePrice>>

\* lines 68-71: the copy is complete, the read lock is released and the
\* copy is returned
ReadEnds(r) ==
    /\ readers[r].pc = "copying"
    /\ estimator' = [estimator EXCEPT !.readLocks = @ - 1]
    /\ readers' = [readers EXCEPT ![r] =
                     [@ EXCEPT !.pc = "out",
                               !.result = Some([words |-> <<readers[r].word,
                                                            estimator.gasPrice[2]>>,
                                                afterClose |-> readers[r].afterClose])]]
    /\ UNCHANGED <<gpClose, gpHist, nonceVars, blockVars, nodePrice>>

\* the goroutine of cancelOnClose
GasPriceCancelOnClose ==
    /\ gpClose.closed
    /\ ~gpClose.cancelOnCloseExited
    /\ gpClose' = CancelOnClose(gpClose)
    /\ UNCHANGED <<estimator, readers, gpHist, nonceVars, blockVars, nodePrice>>

\* a goroutine calls Close
GasPriceClose(c) ==
    /\ estimator.pc # "none"
    /\ gpClose.caller[c] = "out"
    /\ gpClose.calls < MaxCloseCalls
    /\ gpClose' = CloseCall(gpClose, c)
    /\ UNCHANGED <<estimator, readers, gpHist, nonceVars, blockVars, nodePrice>>

\* line 59: wg.Wait returns and Close returns
GasPriceCloseReturns(c) ==
    /\ gpClose.caller[c] = "wg.Wait"
    /\ WaitDone(gpClose)
    /\ gpClose' = CloseReturn(gpClose, c)
    /\ UNCHANGED <<estimator, readers, gpHist, nonceVars, blockVars, nodePrice>>

\* Close returns to a caller that waited in closeOnce.Do
GasPriceCloseResumes(c) ==
    /\ gpClose.caller[c] = "closeOnce.Do"
    /\ gpClose.once = "done"
    /\ gpClose' = CloseResume(gpClose, c)
    /\ UNCHANGED <<estimator, readers, gpHist, nonceVars, blockVars, nodePrice>>

NextGasPrice ==
    \/ NodePriceChanges
    \/ EstimatorFetches
    \/ EstimatorCancelled
    \/ FetchReturns
    \/ EstimatorLocks
    \/ EstimatorStores
    \/ \E r \in Readers : ReadBegins(r)
    \/ \E r \in Readers : ReadEnds(r)
    \/ GasPriceCancelOnClose
    \/ \E c \in Closers : GasPriceClose(c)
    \/ \E c \in Closers : GasPriceCloseReturns(c)
    \/ \E c \in Closers : GasPriceCloseResumes(c)

SpecGasPrice == InitGasPrice /\ [][NextGasPrice]_vars

\* every goroutine that can take a step is scheduled: the timer fires, a
\* fetch returns, Lock is granted once the readers are gone, and the
\* goroutines of Close and cancelOnClose run; the ctx.Done case of the
\* select, ready each time the loop comes back to it, is taken at some point
FairGasPrice ==
    /\ WF_vars(EstimatorFetches)
    /\ WF_vars(FetchReturns)
    /\ WF_vars(EstimatorLocks)
    /\ WF_vars(EstimatorStores)
    /\ SF_vars(EstimatorCancelled)
    /\ WF_vars(GasPriceCancelOnClose)
    /\ \A r \in Readers : WF_vars(ReadEnds(r))
    /\ \A c \in Closers : WF_vars(GasPriceCloseReturns(c))
    /\ \A c \in Closers : WF_vars(GasPriceCloseResumes(c))

SpecGasPriceFair == SpecGasPrice /\ FairGasPrice

\* one component, a block source or a gas price estimator, from its
\* construction on
InitComponent == InitBlockSource \/ InitGasPrice

NextComponent == NextBlockSource \/ NextGasPrice

SpecComponent == InitComponent /\ [][NextComponent]_vars

SpecComponentFair == SpecComponent /\ FairBlockSource /\ FairGasPrice

----------------------------------------------------------------------------
(* Part 5: Eth.WaitForTxReceipt (src/eth.go)                               *)

\* lookups that report ethereum.NotFound during one call
MaxPolls == 3

\* errors are sequences of messages, nil the empty one
ErrNotFound == <<"not found">>

ErrCanceled == <<"context canceled">>

ErrLookup == <<"errNode">>

ErrTxFailed == <<"tx failed">>

\* types.Receipt, by its Status
Receipts == [Status : {"failed", "successful"}]

\* what the node knows of the transaction: it is pending, or mined with
\* a receipt of that status
TxStates == {"pending", "failed", "successful"}

\* what b.TransactionReceipt may return to call w: the receipt of a mined
\* transaction; for a pending one NotFound or, as the simulated backend
\* answers, no receipt and no error; another error; or the error of the
\* context when that is cancelled
LookupResults(w) ==
    { [tr |-> Some(r), err |-> <<>>] : r \in { x \in Receipts : x.Status = w.node } }
    \cup (IF w.node = "pending" THEN {[tr |-> None, err |-> <<>>]} ELSE {})
    \cup { [tr |-> None, err |-> e] :
             e \in {ErrLookup}
                   \cup (IF w.node = "pending" /\ w.notFound < MaxPolls
                         THEN {ErrNotFound} ELSE {})
                   \cup (IF w.ctxDone THEN {ErrCanceled} ELSE {}) }

\* lines 103-112; tr.Status of line 107 panics when tr is nil
onlySuccessfulReceipt(tr, err) ==
    IF err # <<>> THEN [tr |-> None, err |-> err, panic |-> FALSE]
    ELSE IF tr = None THEN [tr |-> None, err |-> <<>>, panic |-> TRUE]
    ELSE IF Val(tr).Status # "successful"
    THEN [tr |-> None, err |-> ErrTxFailed, panic |-> FALSE]
    ELSE [tr |-> tr, err |-> <<>>, panic |-> FALSE]

\* lines 73-77, deferred: an error is returned as
\* fmt.Errorf("waiting for tx(%v): %v", txHashStr, err)
WaitingFor(err) ==
    IF err # <<>> THEN <<"waiting for tx">> \o err ELSE err

\* a return statement of WaitForTxReceipt, with the deferred function run
WaitReturn(w, tr, err, cause) ==
    [w EXCEPT !.pc = "returned", !.tr = tr, !.err = WaitingFor(err),
              !.cause = cause]

AfterLookupReturnsNotFound(w, r) ==
    LET o == onlySuccessfulReceipt(r.tr, r.err)
    IN  IF o.panic THEN [w EXCEPT !.pc = "panicked", !.cause = "lookup"]
        ELSE WaitReturn(w, o.tr, o.err, "lookup")

\* lines 95-99: the result of the lookup in the loop; when
\* onlySuccessfulReceipt panics nothing is returned and the panic goes on
\* to the caller
AfterLookup(w, r) ==
    LET o == onlySuccessfulReceipt(r.tr, r.err)
    IN  IF o.panic THEN [w EXCEPT !.pc = "panicked", !.cause = "lookup"]
        ELSE IF o.err = ErrNotFound
        THEN [w EXCEPT !.pc = "select"]
        ELSE WaitReturn(w, o.tr, o.err, "lookup")

\* the record of a lookup that returned r
CountLookup(w, r) ==
    [w EXCEPT !.lookups = @ + 1,
              !.notFound = IF r.err = ErrNotFound THEN @ + 1 ELSE @]

\* WaitForTxReceipt is called on an Eth whose Backend is what
\* NewHandleNonceBackend returned
InitWait ==
    /\ \E n \in TxStates : waitTx = [NoWait EXCEPT !.pc = "called", !.node = n]
    /\ \E cr \in BOOLEAN : wrapped = ReturnedBackend(cr)
    /\ InitUnobserved
    /\ applied = NoApplication
    /\ blockFetch = NoBlockFetch
    /\ BlockSourceAbsent
    /\ GasPriceEstimatorAbsent

\* lines 82-88: a backend with Commit is committed and asked once; any
\* other backend is polled
WaitBegins ==
    /\ waitTx.pc = "called"
    /\ waitTx' = IF wrapped.returned = "simBackend"
                 THEN [waitTx EXCEPT !.commits = @ + 1,
                                     !.pc = "Commit.TransactionReceipt"]
                 ELSE [waitTx EXCEPT !.pc = "select"]
    /\ UNCHANGED <<backendVars, transferVars, wrapped, applied, blockFetch,
                   blockVars, gasVars>>

\* lines 84-85: the lookup after Commit returns, and so does the call,
\* unless onlySuccessfulReceipt panics
WaitCommitLookupReturns ==
    /\ waitTx.pc = "Commit.TransactionReceipt"
    /\ \E r \in LookupResults(waitTx) :
         LET o == onlySuccessfulReceipt(r.tr, r.err)
             w == CountLookup(waitTx, r)
         IN  waitTx' = IF o.panic
                       THEN [w EXCEPT !.pc = "panicked", !.cause = "commit"]
                       ELSE WaitReturn(w, o.tr, o.err, "commit")
    /\ UNCHANGED <<backendVars, transferVars, wrapped, applied, blockFetch,
                   blockVars, gasVars>>

\* the transaction is mined
TxMined ==
    /\ waitTx.pc \notin {"none", "returned", "panicked"}
    /\ waitTx.node = "pending"
    /\ \E n \in TxStates \ {"pending"} : waitTx' = [waitTx EXCEPT !.node = n]
    /\ UNCHANGED <<backendVars, transferVars, wrapped, applied, blockFetch,
                   blockVars, gasVars>>

\* the context given to the call is cancelled
WaitContextCancelled ==
    /\ waitTx.pc \notin {"none", "returned", "panicked"}
    /\ ~waitTx.ctxDone
    /\ waitTx' = [waitTx EXCEPT !.ctxDone = TRUE]
    /\ UNCHANGED <<backendVars, transferVars, wrapped, applied, blockFetch,
                   blockVars, gasVars>>

\* lines 90-91: return nil, ctx.Err()
WaitCancelled ==
    /\ waitTx.pc = "select"
    /\ waitTx.ctxDone
    /\ waitTx' = WaitReturn(waitTx, None, ErrCanceled, "ctx.Done")
    /\ UNCHANGED <<backendVars, transferVars, wrapped, applied, blockFetch,
                   blockVars, gasVars>>

\* lines 92 and 95: the timer fires and b.TransactionReceipt is called
WaitIntervalElapsed ==
    /\ waitTx.pc = "select"
    /\ waitTx' = [waitTx EXCEPT !.intervals = @ + 1,
                                !.pc = "TransactionReceipt"]
    /\ UNCHANGED <<backendVars, transferVars, wrapped, applied, blockFetch,
                   blockVars, gasVars>>

\* lines 95-99: the lookup of the loop returns
WaitLookupReturns ==
    /\ waitTx.pc = "TransactionReceipt"
    /\ \E r \in LookupResults(waitTx) :
         waitTx' = AfterLookup(CountLookup(waitTx, r), r)
    /\ UNCHANGED <<backendVars, transferVars, wrapped, applied, blockFetch,
                   blockVars, gasVars>>

NextWait ==
    \/ WaitBegins
    \/ WaitCommitLookupReturns
    \/ TxMined
    \/ WaitContextCancelled
    \/ WaitCancelled
    \/ WaitIntervalElapsed
    \/ WaitLookupReturns

SpecWait == InitWait /\ [][NextWait]_vars

----------------------------------------------------------------------------
(***************************************************************************)
(* Part 6: Client.getBlock and chunkTransactions (src/unnamed/part_001)    *)
(*                                                                         *)
(* A transaction is its hash and the fields its receipt fills in.  The     *)
(* chunk size, 500 in the code, is scaled to ChunkSize.  Go indexes from   *)
(* 0 and TLA+ from 1: chunkOffset, i and globalIdx keep their Go values    *)
(* and one is added where a sequence is indexed.                           *)
(***************************************************************************)

\* most transactions in a block
MaxTxs == 5

\* line 95: the chunk size getBlock passes, 500, scaled
ChunkSize == 2

\* lines 161-170: the loop of chunkTransactions from index i on
RECURSIVE chunkLoop(_, _, _, _)
chunkLoop(txs, chunkSize, i, chunks) ==
    IF i < Len(txs)
    THEN LET end == IF i + chunkSize > Len(txs) THEN Len(txs)
                    ELSE i + chunkSize
         IN  chunkLoop(txs, chunkSize, i + chunkSize,
                       Append(chunks, SubSeq(txs, i + 1, end)))
    ELSE chunks

\* lines 156-173 without the clamp of end (lines 164-166): a last chunk
\* shorter than chunkSize is left out
chunkTransactionsDropsPartial(txs, chunkSize) ==
    IF chunkSize <= 0
    THEN [panic |-> TRUE, chunks |-> <<>>]
    ELSE [panic |-> FALSE,
          chunks |-> [n \in 1 .. (Len(txs) \div chunkSize) |->
                         SubSeq(txs, (n - 1) * chunkSize + 1, n * chunkSize)]]

\* lines 156-173: the chunks, or the panic of a chunk size that is not
\* positive
chunkTransactions(txs, chunkSize) ==
    IF chunkSize <= 0
    THEN [panic |-> TRUE, chunks |-> <<>>]
    ELSE [panic |-> FALSE, chunks |-> chunkLoop(txs, chunkSize, 0, <<>>)]

\* chunkTransactions is about to be applied to a list and a chunk size of
\* either sign
InitChunks ==
    /\ \E n \in 0 .. MaxTxs, chunkSize \in -1 .. ChunkSize + 1 :
        \E txs \in [1 .. n -> 1 .. 2] :
            applied = [f |-> "chunkTransactions",
                       args |-> <<txs, chunkSize>>,
                       result |-> [panic |-> FALSE, chunks |-> <<>>],
                       done |-> FALSE]
    /\ InitUnobserved
    /\ wrapped = ReturnedBackend(FALSE)
    /\ waitTx = NoWait
    /\ blockFetch = NoBlockFetch
    /\ BlockSourceAbsent
    /\ GasPriceEstimatorAbsent

\* lines 156-173: the function returns or panics
ApplyChunks ==
    /\ applied.f = "chunkTransactions"
    /\ ~applied.done
    /\ applied' = [applied EXCEPT
                     !.result = chunkTransactions(applied.args[1],
                                                  applied.args[2]),
                     !.done = TRUE]
    /\ UNCHANGED <<backendVars, transferVars, wrapped, waitTx, blockFetch,
                   blockVars, gasVars>>

\* the gas the node's receipt of the transaction with this hash reports
GasOf(hash) == 21 * hash

\* lines 71-87: the transactions of the block body, before their receipts
BodyTxs(n) ==
    [i \in 1 .. n |-> [Hash |-> i, GasUsed |-> None, Status |-> None,
                       ContractAddress |-> None]]

\* what the node answers to one eth_getTransactionReceipt of a batch: an
\* error, null, or a receipt with or without status and contract address
Answers ==
    {[kind |-> "error", status |-> FALSE, contract |-> FALSE],
     [kind |-> "null", status |-> FALSE, contract |-> FALSE]}
        \cup [kind : {"receipt"}, status : BOOLEAN, contract : BOOLEAN]

\* lines 285-289: the rpcReceipt the node's answer to a request decodes to
rpcReceipt(hash, answer) ==
    [GasUsed |-> Some(GasOf(hash)),
     Status |-> IF answer.status THEN Some(1) ELSE None,
     ContractAddress |-> IF answer.contract THEN Some(hash) ELSE None]

\* lines 100, 116
globalIdx(chunkOffset, i) == chunkOffset + i

\* lines 98-107: the requests of the chunk at chunkOffset; result is the
\* Go index of the element of receipts the answer is decoded into
BatchElems(btxs, chunkOffset, chunkLen) ==
    [j \in 1 .. chunkLen |->
        [Args |-> btxs[globalIdx(chunkOffset, j - 1) + 1].Hash,
         Result |-> globalIdx(chunkOffset, j - 1),
         Error |-> FALSE]]

\* the rpc client fills in the requests and the receipts they point to
Answered(reqs, receipts, answers) ==
    [reqs |-> [j \in DOMAIN reqs |->
                  [reqs[j] EXCEPT !.Error = (answers[j].kind = "error")]],
     receipts |->
        [g \in DOMAIN receipts |->
            IF \E j \in DOMAIN reqs :
                   reqs[j].Result + 1 = g /\ answers[j].kind = "receipt"
            THEN LET j == CHOOSE j \in DOMAIN reqs : reqs[j].Result + 1 = g
                 IN  Some(rpcReceipt(reqs[j].Args, answers[j]))
            ELSE receipts[g]]]

\* lines 115-124: the error of the first request that failed or got no
\* receipt, <<>> when there is none
Validation(reqs, receipts, chunkOffset) ==
    LET Bad == { i \in 0 .. Len(reqs) - 1 :
                    \/ reqs[i + 1].Error
                    \/ receipts[globalIdx(chunkOffset, i) + 1] = None }
    IN  IF Bad = {} THEN <<>>
        ELSE LET i == CHOOSE i \in Bad : \A b \in Bad : i <= b
             IN  IF reqs[i + 1].Error
                 THEN <<"request error for transaction",
                        globalIdx(chunkOffset, i)>>
                 ELSE <<"got null receipt for transaction",
                        globalIdx(chunkOffset, i)>>

\* lines 130-138: the receipt values are assigned to the transactions
AssignReceipts(btxs, receipts) ==
    [i \in DOMAIN btxs |->
        LET rcpt == Val(receipts[i])
        IN  [btxs[i] EXCEPT
               !.GasUsed = rcpt.GasUsed,
               !.Status = IF rcpt.Status # None THEN rcpt.Status ELSE @,
               !.ContractAddress = IF rcpt.ContractAddress # None
                                   THEN rcpt.ContractAddress ELSE @]]

\* lines 54-56: getBlock is called and asks the node for the block
InitGetBlock ==
    /\ blockFetch = [NoBlockFetch EXCEPT !.pc = "CallContext"]
    /\ InitUnobserved
    /\ applied = NoApplication
    /\ wrapped = ReturnedBackend(FALSE)
    /\ waitTx = NoWait
    /\ BlockSourceAbsent
    /\ GasPriceEstimatorAbsent

\* lines 56-87: the call fails, finds no block, returns what does not
\* decode, or returns a block with its transactions
CallContextReturns ==
    /\ blockFetch.pc = "CallContext"
    /\ \/ \E err \in {<<"error">>, <<"not found">>, <<"unmarshal">>} :
            blockFetch' = [blockFetch EXCEPT !.pc = "returned", !.err = err]
       \/ \E n \in 0 .. MaxTxs :
            blockFetch' = [blockFetch EXCEPT !.pc = "receipts",
                                             !.txs = BodyTxs(n)]
    /\ UNCHANGED <<backendVars, transferVars, wrapped, applied, waitTx,
                   blockVars, gasVars>>

\* lines 90-95 and 141-153: a block without transactions is returned as it
\* is; otherwise the receipts are allocated and the transactions chunked
LoadReceipts ==
    /\ blockFetch.pc = "receipts"
    /\ blockFetch' =
        IF Len(blockFetch.txs) > 0
        THEN [blockFetch EXCEPT
                !.pc = "chunk",
                !.receipts = [i \in DOMAIN blockFetch.txs |-> None],
                !.chunkOffset = 0,
                !.chunks = chunkTransactions(blockFetch.txs,
                                             ChunkSize).chunks,
                !.k = 1]
        ELSE [blockFetch EXCEPT !.pc = "returned",
                                !.block = Some(blockFetch.txs)]
    /\ UNCHANGED <<backendVars, transferVars, wrapped, applied, waitTx,
                   blockVars, gasVars>>

\* lines 95-110: the requests of the next chunk are sent as one batch
BatchCall ==
    /\ blockFetch.pc = "chunk"
    /\ LET reqs == BatchElems(blockFetch.txs, blockFetch.chunkOffset,
                              Len(blockFetch.chunks[blockFetch.k]))
       IN  blockFetch' = [blockFetch EXCEPT
                            !.pc = "BatchCallContext",
                            !.batches = Append(@, reqs)]
    /\ UNCHANGED <<backendVars, transferVars, wrapped, applied, waitTx,
                   blockVars, gasVars>>

\* lines 110-153: the batch call fails, or its answers are validated; after
\* the last chunk the receipts are assigned and the block is returned;
\* answered records what the node answered to each batch
BatchCallReturns ==
    /\ blockFetch.pc = "BatchCallContext"
    /\ LET reqs == blockFetch.batches[Len(blockFetch.batches)]
           chunkLen == Len(reqs)
       IN  \/ blockFetch' =
                [blockFetch EXCEPT
                   !.pc = "returned",
                   !.err = <<"getting transaction receipts",
                             blockFetch.chunkOffset, chunkLen>>]
           \/ \E answers \in [1 .. chunkLen -> Answers] :
                LET got == Answered(reqs, blockFetch.receipts, answers)
                    err == Validation(got.reqs, got.receipts,
                                      blockFetch.chunkOffset)
                    seen == [blockFetch EXCEPT
                               !.receipts = got.receipts,
                               !.answered = Append(@, answers)]
                IN  blockFetch' =
                      IF err # <<>>
                      THEN [seen EXCEPT !.pc = "returned", !.err = err]
                      ELSE IF blockFetch.k < Len(blockFetch.chunks)
                      THEN [seen EXCEPT !.pc = "chunk",
                                        !.chunkOffset = @ + chunkLen,
                                        !.k = @ + 1]
                      ELSE [seen EXCEPT
                              !.pc = "returned",
                              !.chunkOffset = @ + chunkLen,
                              !.block = Some(AssignReceipts(blockFetch.txs,
                                                            got.receipts))]
    /\ UNCHANGED <<backendVars, transferVars, wrapped, applied, waitTx,
                   blockVars, gasVars>>

\* chunkTransactions on its own, and getBlock that calls it
SpecGetBlock ==
    (InitChunks \/ InitGetBlock)
        /\ [][ApplyChunks \/ CallContextReturns \/ LoadReceipts \/ BatchCall
                \/ BatchCallReturns]_vars

----------------------------------------------------------------------------
(* Properties of BlockSource *)

Delivered == bsHist.delivered

Numbers == [i \in 1 .. Len(Delivered) |-> Delivered[i].number]

\* the head was cached, and at least `confirmations` above the block, when
\* the fetch of the block was decided
Confirmed(d) ==
    /\ d.head # None
    /\ Val(d.head) >= d.number + cfg.Confirmations

\* C11 as stated: every delivered block had, when the loop decided to
\* fetch it, a cached head with head >= delivered height + confirmations.
\* With Confirmations = 0 the loop never asks for the head, so the blocks
\* it delivers have no cached head at all.
C11_Original == \A i \in 1 .. Len(Delivered) : Confirmed(Delivered[i])

\* C11: with Confirmations > 0, every delivered block had, when the loop
\* decided to fetch it, a cached head with head >= delivered height +
\* confirmations, and no BlockByNumber call is in flight while
\* currBlkNumber + confirmations exceeds recentBlkNumber.
C11_ConfirmationGate ==
    cfg.Confirmations > 0 =>
        /\ \A i \in 1 .. Len(Delivered) : Confirmed(Delivered[i])
        /\ bs.pc = "BlockByNumber" =>
              /\ bs.recentBlkNumber # None
              /\ bs.currBlkNumber # None
              /\ Val(bs.currBlkNumber) + cfg.Confirmations
                     <= Val(bs.recentBlkNumber)

\* two blocks were delivered with confirmations required, and the loop had
\* to wait for the head to advance
C11_Witness ==
    /\ cfg.Confirmations > 0
    /\ Len(Delivered) >= 2
    /\ bsHist.waited

\* the cursor is one above the block that was delivered last, or, while a
\* fetched block waits for its receiver, one above that block
CursorFollows ==
    /\ bs.b # None => bs.currBlkNumber = Some(Val(bs.b) + 1)
    /\ Len(Delivered) > 0 =>
          LET lastNumber == Delivered[Len(Delivered)].number
          IN  IF bs.b # None
              THEN Val(bs.b) = lastNumber + 1
              ELSE bs.currBlkNumber = Some(lastNumber + 1)

CursorNeverDecreases ==
    bs.currBlkNumber # None =>
        /\ bs'.currBlkNumber # None
        /\ Val(bs'.currBlkNumber) >= Val(bs.currBlkNumber)

\* C12: the delivered heights go up by exactly one from block to block;
\* after each delivery currBlkNumber is the delivered height + 1 and the
\* next block delivered has that height; currBlkNumber never decreases.
C12_NoSkipNoRepeat ==
    /\ [](/\ \A i \in 1 .. Len(Delivered) - 1 :
                Numbers[i + 1] = Numbers[i] + 1
          /\ CursorFollows)
    /\ [][CursorNeverDecreases]_vars

\* three blocks in a row were delivered
C12_Witness ==
    /\ Len(Delivered) >= 3
    /\ bs.pc = "loop"

\* C13: with Confirmations = 1, no StartBlock and 10 as the first head
\* observed, the blocks delivered are 9, 10, 11, ... in this order, each
\* once, and block n is fetched only with a cached head of n + 1 or more.
C13_Scenario ==
    (/\ cfg.Confirmations = 1
     /\ cfg.StartBlock = None
     /\ bsHist.firstHead = Some(10))
    => \A i \in 1 .. Len(Delivered) :
          /\ Numbers[i] = 9 + (i - 1)
          /\ Confirmed(Delivered[i])

\* the head was seen as 10, 11 and 12 and the blocks 9, 10, 11 went out
C13_Witness ==
    /\ cfg.Confirmations = 1
    /\ cfg.StartBlock = None
    /\ bsHist.firstHead = Some(10)
    /\ Numbers = <<9, 10, 11>>
    /\ [i \in 1 .. 3 |-> Delivered[i].head] = <<Some(10), Some(11), Some(12)>>

\* C14: with Confirmations = 0 the loop never calls BlockNumber and never
\* backs off for a confirmation margin; without a StartBlock its first
\* BlockByNumber call has a nil number (the latest block), the block that
\* call returns is the next one offered on the channel, and every later
\* call asks for the height after the block fetched before.
C14_NoConfirmations ==
    cfg.Confirmations = 0 =>
        /\ ~bsHist.headQueries
        /\ ~bsHist.waited
        /\ bs.recentBlkNumber = None
        /\ bs.pc # "BlockNumber"
        /\ cfg.StartBlock = None =>
              /\ bsHist.firstFetch \in {None, Some(None)}
              /\ bs.currBlkNumber = None => Delivered = <<>> /\ bs.b = None
        /\ CursorFollows

\* no confirmations, no start block: the latest block and its successor
\* were delivered
C14_Witness ==
    /\ cfg.Confirmations = 0
    /\ cfg.StartBlock = None
    /\ bsHist.firstFetch = Some(None)
    /\ Len(Delivered) = 2

\* C15: close(blocks) runs once, and only after the goroutine has left its
\* loop; no block is sent on the channel after it or while it runs; when
\* a Close call returns the channel is closed.
C15_ChannelClosedOnce ==
    /\ bsClose.blocks <= 1
    /\ ~bsClose.panicked
    /\ ~bsHist.lateSend
    /\ bsClose.blocks > 0 => bs.pc \in {"return", "exited"}
    /\ bsClose.returned => bsClose.blocks = 1

\* Close has returned after blocks were delivered, and was called twice
C15_Witness ==
    /\ bsClose.returned
    /\ bsClose.calls = 2
    /\ Len(Delivered) >= 1
    /\ bsClose.blocks = 1

\* C16: a consumer that calls Close from inside its receive loop after
\* its k-th block does not deadlock: Close returns, the channel is then
\* closed, the loop ends, and exactly k blocks were delivered in total.
C16_CloseFromConsumerLoop ==
    /\ [](cfg.closeAfter # None => Len(Delivered) <= Val(cfg.closeAfter))
    /\ (cfg.closeAfter = Some(consumer.received))
           ~> (/\ consumer.pc = "ended"
               /\ bsClose.caller["consumer"] = "out"
               /\ bsClose.blocks = 1
               /\ Len(Delivered) = Val(cfg.closeAfter))

\* the consumer's own Close call ran the shutdown after its second block,
\* and its loop has ended
C16_Witness ==
    /\ cfg.closeAfter = Some(2)
    /\ consumer.pc = "ended"
    /\ bsClose.calls = 1
    /\ Len(Delivered) = 2

----------------------------------------------------------------------------
(* Properties of Close, of both components *)

\* a Close call made after a Close call has returned leaves lc as it is,
\* but for the count of the calls
LaterCloseCall(lc, after) ==
    /\ lc.returned
    /\ after.calls # lc.calls

OnlyCounted(lc, after) == after = [lc EXCEPT !.calls = after.calls]

\* C17: Close on a closed GasPriceEstimator or BlockSource is idempotent:
\* a second or later call does not panic (closed, the channel and the
\* client are closed once) and changes no state of the component.
C17_CloseIdempotent ==
    /\ [](/\ ~gpClose.panicked
          /\ ~bsClose.panicked
          /\ bsClose.blocks <= 1
          /\ bsClose.client <= 1)
    /\ [][/\ LaterCloseCall(gpClose, gpClose') =>
                /\ OnlyCounted(gpClose, gpClose')
                /\ UNCHANGED <<estimator, readers, gpHist>>
          /\ LaterCloseCall(bsClose, bsClose') =>
                /\ OnlyCounted(bsClose, bsClose')
                /\ UNCHANGED <<cfg, chainHead, bs, bsHist>>]_vars

\* TestClose: Close was called twice on an estimator, and both calls have
\* returned
C17_Witness ==
    /\ gpClose.calls = 2
    /\ gpClose.returned
    /\ gpClose.once = "done"
    /\ \A c \in Closers : gpClose.caller[c] = "out"

\* what the goroutine of GasPriceEstimator.runAsync holds and writes
EstimatorGoroutine ==
    <<estimator.pc, estimator.gasPrice, estimator.newGasPrice, estimator.writer>>

\* C18: when Close returns, both goroutines of the instance have exited;
\* from then on no fetch or RPC call starts, gasPrice is not written and
\* no block is delivered.
C18_CloseSynchronous ==
    /\ [](gpClose.returned =>
             /\ estimator.pc = "exited"
             /\ gpClose.cancelOnCloseExited
             /\ gpClose.wg = 0)
    /\ [](bsClose.returned =>
             /\ bs.pc = "exited"
             /\ bsClose.cancelOnCloseExited
             /\ bsClose.wg = 0)
    /\ [][gpClose.returned => UNCHANGED EstimatorGoroutine]_vars
    /\ [][bsClose.returned => UNCHANGED <<bs, bsHist>>]_vars

\* Close has returned on a block source that had delivered a block and
\* held a fetched block for delivery when it was stopped
C18_Witness ==
    /\ bsClose.returned
    /\ bs.pc = "exited"
    /\ bs.b # None
    /\ Len(Delivered) >= 1

----------------------------------------------------------------------------
(* Properties of GasPriceEstimator *)

\* C19: after Close has returned, SuggestGasPrice calls are never kept
\* waiting (no writer holds or will take the mutex) and every call made
\* from then on returns the value gasPrice had when Close returned.
C19_ReadAfterClose ==
    /\ [](gpClose.returned =>
             /\ estimator.pc = "exited"
             /\ CanRLock(estimator)
             /\ \A r \in Readers :
                   (readers[r].result # None /\ Val(readers[r].result).afterClose)
                       => Val(readers[r].result).words = estimator.gasPrice)
    /\ [][gpClose.returned => UNCHANGED estimator.gasPrice]_vars

\* both readers have read, after Close, a price that had replaced the
\* initial one
C19_Witness ==
    /\ gpClose.returned
    /\ estimator.gasPrice # Words(gpHist.initial)
    /\ \A r \in Readers :
          /\ readers[r].result # None
          /\ Val(readers[r].result).afterClose

\* the initial price and the prices returned by successful fetches
Known == { Words(p) : p \in {gpHist.initial} \cup gpHist.fetched }

\* C20: every value SuggestGasPrice returns is the initial value or the
\* result of a successful fetch, never a mixture of two values, also for
\* readers that run while the value is replaced; gasPrice changes only to
\* the result of a successful fetch, so a failed fetch leaves it alone.
C20_OnlyFetchedValues ==
    /\ [](/\ estimator.gasPrice \in Known
          /\ \A r \in Readers :
                readers[r].result # None
                    => Val(readers[r].result).words \in Known)
    /\ [][estimator'.gasPrice # estimator.gasPrice =>
             /\ estimator.pc = "locked"
             /\ estimator.newGasPrice \in gpHist.fetched
             /\ estimator'.gasPrice = Words(estimator.newGasPrice)]_vars
    /\ [][(estimator.pc = "SuggestGasPrice" /\ gpHist'.fetched = gpHist.fetched)
             => UNCHANGED estimator.gasPrice]_vars

\* one reader copies the value while the goroutine waits for the write
\* lock to replace it, and the other reader has got a fetched value
C20_Witness ==
    \E r1, r2 \in Readers :
        /\ readers[r1].pc = "copying"
        /\ estimator.pc = "Lock"
        /\ readers[r2].result # None
        /\ Val(readers[r2].result).words # Words(gpHist.initial)

\* C21: if the price the node suggests becomes v and stays v, fetches
\* succeed and Close is not called, then from some point on gasPrice, the
\* value SuggestGasPrice copies, is v.
C21_Freshness ==
    \A v \in Prices :
        <>[](nodePrice = v /\ ~gpHist.failed /\ ~gpClose.closed)
            => <>[](estimator.gasPrice = Words(v))

\* the node's price has replaced the initial one and a reader has got it
C21_Witness ==
    /\ ~gpClose.closed
    /\ nodePrice # gpHist.initial
    /\ estimator.gasPrice = Words(nodePrice)
    /\ \E r \in Readers :
          /\ readers[r].result # None
          /\ Val(readers[r].result).words = Words(nodePrice)

\* C22: while a fetch is in flight, gasPrice is the result of the fetch
\* before it, if that fetch succeeded: a result is compared and stored
\* before the fetcher is called again.
C22_StoredBeforeNextFetch ==
    (estimator.pc = "SuggestGasPrice" /\ gpHist.last # None)
        => estimator.gasPrice = Words(Val(gpHist.last))

\* a fetch is in flight after a fetch that replaced the initial price
C22_Witness ==
    /\ estimator.pc = "SuggestGasPrice"
    /\ gpHist.last # None
    /\ Val(gpHist.last) # gpHist.initial

\* C23: while the goroutine sleeps or has a fetch in flight the mutex is
\* not write-locked and RLock is granted at once; a SuggestGasPrice call
\* of a reader starts no fetch and moves the goroutine nowhere.
C23_ReadNeverWaits ==
    /\ [](estimator.pc \in {"select", "SuggestGasPrice"} =>
             /\ ~estimator.writer
             /\ CanRLock(estimator))
    /\ [][readers' # readers =>
             /\ estimator'.pc = estimator.pc
             /\ UNCHANGED <<gpHist, nodePrice, gpClose>>]_vars

\* both readers copy the price while a fetch is in flight
C23_Witness ==
    /\ estimator.pc = "SuggestGasPrice"
    /\ \A r \in Readers : readers[r].pc = "copying"

\* a fetch returns an error
FetchFails ==
    /\ estimator.pc = "SuggestGasPrice"
    /\ estimator'.pc # "SuggestGasPrice"
    /\ gpHist'.failed

\* C24: a failed fetch leaves gasPrice and what the readers hold as they
\* are and takes the goroutine back to its select; unless Close is called
\* the next fetch follows; the goroutine exits only after Close was called.
C24_FetchFailureNotFatal ==
    /\ [][FetchFails =>
             /\ estimator'.pc = "select"
             /\ UNCHANGED <<estimator.gasPrice, readers>>]_vars
    /\ [](estimator.pc = "exited" => gpClose.closed)
    /\ (gpHist.failed /\ estimator.pc = "select")
           ~> (estimator.pc = "SuggestGasPrice" \/ gpClose.closed)

\* after a failed fetch the next fetch is in flight
C24_Witness ==
    /\ gpHist.failed
    /\ estimator.pc = "SuggestGasPrice"
    /\ ~gpClose.closed

----------------------------------------------------------------------------
(* Properties of simBackend and of SendTransaction without a signer *)

\* C27: NewHandleNonceBackend returns a simBackend exactly when the inner
\* backend has Commit and Rollback; Commit and Rollback are forwarded to
\* the inner backend once each and leave addressNonce alone;
\* PendingNonceAt and SendTransaction of the returned object give the
\* results and the addressNonce of HandleNonceBackend.
C27_SimBackendForwards ==
    /\ wrapped.returned = "simBackend" <=> wrapped.commiterRollbacker
    /\ last.op \in {"Commit", "Rollback"} =>
          /\ wrapped.commiterRollbacker
          /\ last.forwarded = last.op
          /\ last.calls = 1
          /\ addressNonce = last.before
    /\ last.op = "PendingNonceAt" =>
          LET r == PendingNonceAt(last.before, last.account, last.innerNonce,
                                  last.innerErr)
          IN  /\ last.nonce = r.nonce
              /\ last.err = r.err
              /\ last.calls = r.calls
              /\ addressNonce = r.addressNonce
    /\ last.op = "SendTransaction" =>
          LET r == SendTransaction(last.before, last.tx, last.innerErr)
          IN  /\ last.err = r.err
              /\ last.calls = r.calls
              /\ addressNonce = r.addressNonce

\* Commit was called through a simBackend whose PendingNonceAt and
\* SendTransaction had raised a stored nonce
C27_Witness ==
    /\ wrapped.returned = "simBackend"
    /\ last.op = "Commit"
    /\ addressNonce["A"] > 0
    /\ addressNonce["B"] > 0

\* C28: a SendTransaction that the inner backend accepted, of a transaction
\* whose signer cannot be recovered, returns no error and leaves
\* addressNonce unchanged.
C28_UnrecoverableSigner ==
    (/\ last.op = "SendTransaction"
     /\ last.innerErr = ErrNil
     /\ Sender(last.tx).err # ErrNil)
    => /\ last.err = ErrNil
       /\ addressNonce = last.before

\* such a transaction was sent when nonces were stored for both addresses
C28_Witness ==
    /\ last.op = "SendTransaction"
    /\ last.innerErr = ErrNil
    /\ Sender(last.tx).err # ErrNil
    /\ last.tx.nonce > 0
    /\ \A a \in handleAddresses : addressNonce[a] > 0

\* the timer of the delay fires after four seconds, and the loop runs on
FairRetry ==
    /\ FairBlockSource
    /\ WF_vars(LoopDelayElapsed)

SpecBlockSourceFair == SpecBlockSource /\ FairRetry

\* a call of BlockNumber or BlockByNumber ends without a block to offer
\* and without a block to fetch
FailedIteration ==
    /\ bs.pc \in {"BlockNumber", "BlockByNumber"}
    /\ bs' # bs
    /\ bs'.pc \notin {"BlockByNumber", "deliver"}

\* the cursor is where the last failure left it, or has been derived from
\* a head seen after a head query that failed with no cursor set
CursorKept ==
    bsHist.failure # None =>
        LET f == Val(bsHist.failure)
        IN  \/ bs.currBlkNumber = f.cursor
            \/ /\ f.cursor = None
               /\ f.op \in {"BlockNumber", "insufficient"}

RetryPending ==
    /\ bs.pc = "loop"
    /\ bs.delayBeforeIteration
    /\ bsHist.failure # None

\* C25: a failed BlockNumber, a head that is still insufficient, ErrNotFound
\* and any other error of BlockByNumber leave the cursor where it was, send
\* nothing to the consumer, and send the loop back to its delay; the
\* goroutine returns only on cancellation, and after the delay the loop
\* asks again, for the same block
C25_ErrorsRetried ==
    /\ [][FailedIteration =>
             /\ bs'.pc = "loop"
             /\ bs'.delayBeforeIteration
             /\ bs'.currBlkNumber = bs.currBlkNumber
             /\ bs'.b = bs.b
             /\ UNCHANGED <<bsHist.delivered, consumer, bsClose>>]_vars
    /\ [](bs.pc \in {"return", "exited"} => bsClose.ctxDone)
    /\ []CursorKept
    /\ RetryPending ~> (bs.pc \in {"BlockNumber", "BlockByNumber"} \/ bsClose.ctxDone)

C25_Witness ==
    /\ bs.pc = "BlockByNumber"
    /\ bsHist.failure # None
    /\ Val(bsHist.failure).op = "ErrNotFound"
    /\ Val(bsHist.failure).cursor # None
    /\ bs.currBlkNumber = Val(bsHist.failure).cursor
    /\ bsHist.waited
    /\ Len(Delivered) >= 1

\* the cursor is set from the head
Derived ==
    /\ bs.currBlkNumber = None
    /\ bs'.currBlkNumber # None
    /\ bs'.pc = "BlockByNumber"

\* a cursor that is set moves only past a block BlockByNumber returned
CursorSetOnce ==
    (bs.currBlkNumber # None /\ bs'.currBlkNumber # bs.currBlkNumber) =>
        /\ bs.pc = "BlockByNumber"
        /\ bs'.b = bs.currBlkNumber
        /\ bs'.currBlkNumber = Some(Val(bs.currBlkNumber) + 1)

\* C30: with Config.StartBlock set the first BlockByNumber call asks for
\* that block; with no StartBlock and Confirmations c > 0 it asks for
\* head - c, where head is the first result of BlockNumber that is >= c,
\* so never for a negative number; the cursor is derived from the head at
\* most once and then only moves past fetched blocks
C30_FirstRequested ==
    /\ [](bsHist.firstFetch # None =>
            /\ cfg.StartBlock # None =>
                   Val(bsHist.firstFetch) = cfg.StartBlock
            /\ (cfg.StartBlock = None /\ cfg.Confirmations > 0) =>
                   /\ bsHist.firstEligible # None
                   /\ Val(bsHist.firstFetch) =
                          Some(Val(bsHist.firstEligible) - cfg.Confirmations)
                   /\ Val(Val(bsHist.firstFetch)) >= 0)
    /\ [][Derived =>
             /\ cfg.StartBlock = None
             /\ bsHist.firstFetch = None
             /\ bsHist'.firstFetch = Some(bs'.currBlkNumber)]_vars
    /\ [][CursorSetOnce]_vars

C30_Witness ==
    /\ cfg.StartBlock = None
    /\ cfg.Confirmations > 0
    /\ bsHist.firstFetch # None
    /\ bsHist.firstHead # bsHist.firstEligible
    /\ Len(Delivered) >= 2
    /\ bs.currBlkNumber = Some(Val(Val(bsHist.firstFetch)) + 2)

\* the head is unknown, below the confirmation depth, or less than
\* `confirmations` above a known current block
HeadTooLow(currentBlockNumber, recentBlockNumber, confirmations) ==
    \/ recentBlockNumber = None
    \/ Val(recentBlockNumber) < confirmations
    \/ /\ currentBlockNumber # None
       /\ Val(currentBlockNumber) + confirmations > Val(recentBlockNumber)

\* the cached head is at least `Confirmations` above the cursor
HeadCovers ==
    /\ bs.currBlkNumber # None
    /\ bs.recentBlkNumber # None
    /\ Val(bs.currBlkNumber) + cfg.Confirmations <= Val(bs.recentBlkNumber)

\* C29: needToGetMostRecentBlockNumber(current, recent, confirmations) is
\* true exactly when confirmations > 0 and the head is unknown, or below
\* confirmations, or below current + confirmations for a known current;
\* so BlockNumber is in flight only in that case, and while the cached head
\* covers the cursor an iteration of the loop calls BlockByNumber at once
C29_RefreshOnlyWhenNeeded ==
    /\ []((applied.f = "needToGetMostRecentBlockNumber" /\ applied.done) =>
            (applied.result <=>
                /\ applied.args[3] > 0
                /\ HeadTooLow(applied.args[1], applied.args[2],
                              applied.args[3])))
    /\ [](bs.pc = "BlockNumber" =>
            /\ cfg.Confirmations > 0
            /\ HeadTooLow(bs.currBlkNumber, bs.recentBlkNumber,
                          cfg.Confirmations))
    /\ [][(bs.pc = "loop" /\ ~bs.delayBeforeIteration /\ HeadCovers
             /\ bs' # bs) =>
                /\ bs'.pc = "BlockByNumber"
                /\ bs'.currBlkNumber = bs.currBlkNumber
                /\ bs'.recentBlkNumber = bs.recentBlkNumber]_vars

C29_Witness ==
    /\ applied.f = "needToGetMostRecentBlockNumber"
    /\ applied.done
    /\ applied.result
    /\ applied.args[1] # None
    /\ applied.args[2] # None
    /\ Val(applied.args[2]) >= applied.args[3]
    /\ Val(applied.args[1]) + applied.args[3] > Val(applied.args[2])

\* a Close call that has not returned
Closing(lc) == \E c \in Closers : lc.caller[c] # "out"

\* C26: every Close call returns, wherever the goroutine is while the call
\* is made: in the delay or the interval select, in BlockNumber,
\* BlockByNumber or SuggestGasPrice, or offering a block that no consumer
\* takes; the calls in flight return
C26_CloseTerminates ==
    (Closing(bsClose) \/ Closing(gpClose))
        ~> (~Closing(bsClose) /\ ~Closing(gpClose))

\* the consumer has called Close from its loop, the only call; the block
\* source gave up the block it was offering, and Close has returned
C26_Witness ==
    /\ bsClose.returned
    /\ bsClose.calls = 1
    /\ cfg.closeAfter = Some(consumer.received)
    /\ consumer.pc = "ended"
    /\ bs.pc = "exited"
    /\ bs.b # None

----------------------------------------------------------------------------
(* Further properties of BlockSource *)

\* the block the goroutine offers is taken by the consumer
Accepted ==
    /\ bs'.pc = "loop"
    /\ bs'.b = None
    /\ bsHist'.delivered = Append(bsHist.delivered,
                                  [number |-> Val(bs.b),
                                   head |-> bsHist.fetchHead])
    /\ consumer'.received = consumer.received + 1

\* C31: the goroutine holds at most one block that was fetched and not
\* delivered: while it delays, queries the head or fetches a block it
\* holds none, and it leaves the offer of a block only when the consumer
\* has taken that block or the context is cancelled
C31_Backpressure ==
    /\ [](bs.pc \in {"loop", "BlockNumber", "BlockByNumber"} => bs.b = None)
    /\ [](bs.pc = "deliver" =>
            /\ bs.b # None
            /\ bs.currBlkNumber = Some(Val(bs.b) + 1))
    /\ [][(bs.pc = "deliver" /\ bs' # bs) =>
             \/ Accepted
             \/ bsClose.ctxDone /\ bs'.pc = "return" /\ bs'.b = bs.b]_vars

\* a block waits for the busy consumer while the next block is on the chain
C31_Witness ==
    /\ bs.pc = "deliver"
    /\ consumer.pc = "body"
    /\ Len(Delivered) >= 1
    /\ Val(bs.b) = Delivered[Len(Delivered)].number + 1
    /\ Val(bs.currBlkNumber) + cfg.Confirmations <= chainHead
    /\ ~bsClose.closed

\* line 98: the timer fires and the flag is cleared
DelayElapsed ==
    /\ bs.pc = "loop"
    /\ bs' = [bs EXCEPT !.delayBeforeIteration = FALSE]

\* C34: the loop delays before an iteration exactly when the iteration
\* before ended without a block: the flag is set by a failed BlockNumber,
\* an insufficient head and a failed BlockByNumber and by nothing else, no
\* call to the node starts while it is set, it is cleared when the timer
\* fires, and after a block was fetched and delivered the loop goes on
\* with the flag clear
C34_BackoffDiscipline ==
    /\ [](bs.pc \in {"BlockNumber", "BlockByNumber", "deliver"} =>
            ~bs.delayBeforeIteration)
    /\ [](bs.pc = "loop" /\ bs.delayBeforeIteration => bsHist.failure # None)
    /\ [](bs.pc = "loop" /\ bsHist.failure = None => ~bs.delayBeforeIteration)
    /\ [][FailedIteration => bs'.delayBeforeIteration]_vars
    /\ [][(~bs.delayBeforeIteration /\ bs'.delayBeforeIteration) =>
             FailedIteration]_vars
    /\ [][(bs.delayBeforeIteration /\ ~bs'.delayBeforeIteration) =>
             DelayElapsed]_vars
    /\ [][(bs.pc = "deliver" /\ bs'.pc = "loop") =>
             ~bs'.delayBeforeIteration /\ bsHist'.failure = None]_vars

\* the delay after an insufficient head has elapsed and the loop is about
\* to run its next iteration
C34_Witness ==
    /\ bs.pc = "loop"
    /\ ~bs.delayBeforeIteration
    /\ bsHist.failure # None
    /\ Val(bsHist.failure).op = "insufficient"
    /\ Len(Delivered) >= 1

----------------------------------------------------------------------------
(* Further properties of both components *)

\* the calls to the node that are in flight
CallsInFlight ==
    (IF bs.pc \in {"BlockNumber", "BlockByNumber"} THEN 1 ELSE 0)
    + (IF estimator.pc = "SuggestGasPrice" THEN 1 ELSE 0)

\* the goroutines wg counts: the one of runAsync and the one of
\* cancelOnClose
Running(taskPc, lc) ==
    (IF taskPc # "exited" THEN 1 ELSE 0)
    + (IF lc.cancelOnCloseExited THEN 0 ELSE 1)

\* C32: a block source and a gas price estimator run one goroutine that
\* calls the node (wg counts it and the goroutine of cancelOnClose, and no
\* other); at most one call to the node is in flight; the cursor and the
\* cached head change only in a step of the loop, and the cached price only
\* in the store of the goroutine, under the write lock
C32_OneBackgroundTask ==
    /\ [](CallsInFlight <= 1)
    /\ [](gpClose.wg = Running(estimator.pc, gpClose))
    /\ [](bsClose.wg = Running(bs.pc, bsClose))
    /\ [][<<bs.currBlkNumber, bs.recentBlkNumber>>' #
              <<bs.currBlkNumber, bs.recentBlkNumber>> =>
                /\ bs.pc \in {"loop", "BlockNumber", "BlockByNumber"}
                /\ bs'.pc # bs.pc
                /\ UNCHANGED <<consumer, bsClose>>]_vars
    /\ [][estimator'.gasPrice # estimator.gasPrice =>
                /\ estimator.pc = "locked"
                /\ estimator.writer
                /\ estimator'.pc = "select"
                /\ UNCHANGED <<readers, gpClose>>]_vars

\* a block is being fetched while the consumer works on the last one and
\* a Close call waits
C32_Witness ==
    /\ bs.pc = "BlockByNumber"
    /\ consumer.pc = "body"
    /\ bsClose.caller["owner"] = "wg.Wait"
    /\ Len(Delivered) >= 1
    /\ CallsInFlight = 1

\* a Close call returns: c comes back from wg.Wait or closeOnce.Do, or a
\* call returns in the step in which it is made
CloseCallReturns(lc, after) ==
    \/ \E c \in Closers : lc.caller[c] # "out" /\ after.caller[c] = "out"
    \/ after.calls = lc.calls + 1 /\ after.caller = lc.caller

\* C35: every Close call returns only after the goroutine of runAsync has
\* exited, and for the block source after close(blocks): the call that
\* runs the function of closeOnce.Do, a call that arrives while that
\* function runs, and every later call
C35_EveryCloseWaits ==
    /\ [][CloseCallReturns(gpClose, gpClose') =>
             /\ estimator.pc = "exited"
             /\ gpClose.wg = 0]_vars
    /\ [][CloseCallReturns(bsClose, bsClose') =>
             /\ bs.pc = "exited"
             /\ bsClose.blocks = 1
             /\ bsClose.wg = 0]_vars
    /\ [](\A c \in Closers :
            /\ gpClose.caller[c] = "closeOnce.Do" => gpClose.once # "fresh"
            /\ bsClose.caller[c] = "closeOnce.Do" => bsClose.once # "fresh")

\* the consumer's Close call ran the shutdown and has returned; the call
\* of the owner, made meanwhile, is still in closeOnce.Do
C35_Witness ==
    /\ bsClose.calls = 2
    /\ bsClose.once = "done"
    /\ bsClose.caller["consumer"] = "out"
    /\ bsClose.caller["owner"] = "closeOnce.Do"
    /\ bsClose.returned
    /\ bs.pc = "exited"
    /\ bsClose.blocks = 1

\* C36: client.Close runs only after the goroutine of runAsync has exited:
\* no BlockNumber or BlockByNumber call is made or in flight on a closed
\* client
C36_ClientClosedLast ==
    /\ [](bsClose.client > 0 =>
            /\ bs.pc = "exited"
            /\ bsClose.wg = 0
            /\ bsClose.blocks = 1)
    /\ [](bs.pc \in {"loop", "BlockNumber", "BlockByNumber", "deliver"} =>
            bsClose.client = 0)
    /\ [][bsClose'.client # bsClose.client =>
             /\ bs.pc = "exited"
             /\ bsClose'.client = 1
             /\ UNCHANGED bs]_vars

\* the client is closed; the goroutine had queried the head and fetched
\* blocks, and was stopped in its delay
C36_Witness ==
    /\ bsClose.client = 1
    /\ bs.pc = "exited"
    /\ bsHist.headQueries
    /\ Len(Delivered) >= 1
    /\ bs.delayBeforeIteration
    /\ bs.b = None

\* the block after the last delivered one is on the chain, under
\* Confirmations blocks
NextBlockDue ==
    /\ Len(Delivered) >= 1
    /\ Delivered[Len(Delivered)].number + 1 + cfg.Confirmations <= chainHead

\* C33: when the calls to the node succeed in the end and the consumer
\* keeps receiving, every block from the first delivered one on is
\* delivered once the chain has it under Confirmations blocks, unless Close
\* is called: a block that is due does not stay due, and the delivered
\* numbers have no gap, whatever failed on the way
C33_StreamLiveness ==
    /\ []<>(~NextBlockDue \/ bsClose.closed)
    /\ [](\A i \in 1 .. Len(Delivered) - 1 :
              Delivered[i + 1].number = Delivered[i].number + 1)

\* four blocks in a row were delivered up to the last one that is due,
\* and the loop had to wait for the head on the way
C33_Witness ==
    /\ Len(Delivered) >= 4
    /\ bsHist.waited
    /\ ~NextBlockDue
    /\ chainHead = cfg.head + MaxGrowth
    /\ cfg.Confirmations > 0
    /\ ~bsClose.closed

----------------------------------------------------------------------------
(* Further properties of HandleNonceBackend *)

\* the handled addresses whose stored nonce the step changes
Changed ==
    { a \in handleAddresses : addressNonce'[a] # addressNonce[a] }

\* the address a call is about: the account queried, or the signer of the
\* transaction sent
Subject(call) ==
    IF call.op = "PendingNonceAt" THEN call.account ELSE call.tx.signer

\* C37: addressNonce has the addresses of handleAddresses as its keys, all
\* at 0 when the backend is made, and no call adds or removes a key; a
\* PendingNonceAt or SendTransaction call changes at most the entry of the
\* account queried or of the signer recovered, and no other
C37_FixedKeySet ==
    /\ \A a \in handleAddresses : addressNonce[a] = 0
    /\ [](DOMAIN addressNonce = handleAddresses)
    /\ [][/\ DOMAIN addressNonce' = DOMAIN addressNonce
          /\ Changed \subseteq {Subject(last')}
          /\ Subject(last') \notin handleAddresses =>
                addressNonce' = addressNonce]_vars

\* a transaction of an address that is not handled was sent; the stored
\* nonces, not all 0, are as before
C37_Witness ==
    /\ IsSend /\ last.err = ErrNil
    /\ last.tx.signer \in Accounts \ handleAddresses
    /\ addressNonce = last.before
    /\ \A a \in handleAddresses : addressNonce[a] > 0
    /\ addressNonce["A"] # addressNonce["B"]

\* C38: tx.Nonce() + 1 is a uint64 sum: after a successful send of the
\* largest uint64 by a handled address the sum is 0, the stored nonce is
\* as before, and a successful PendingNonceAt of that address that follows
\* returns max(inner value, stored nonce before the send)
C38_WrapLeavesWatermark ==
    /\ []((/\ IsSend /\ last.err = ErrNil
           /\ last.tx.signer \in handleAddresses
           /\ last.tx.nonce = MaxUint64) =>
              /\ Add64(last.tx.nonce, 1) = 0
              /\ addressNonce = last.before)
    /\ [][(/\ IsSend /\ last.err = ErrNil
           /\ last.tx.signer \in handleAddresses
           /\ last.tx.nonce = MaxUint64
           /\ last'.op = "PendingNonceAt" /\ last'.err = ErrNil
           /\ last'.account = last.tx.signer) =>
              /\ last'.nonce = Max(last'.innerNonce,
                                   last.before[last.tx.signer])
              /\ last'.nonce \in Uint64]_vars

\* the largest uint64 was sent by a handled address whose stored nonce was
\* not 0, and is not changed
C38_Witness ==
    /\ IsSend /\ last.err = ErrNil
    /\ last.tx.signer \in handleAddresses
    /\ last.tx.nonce = MaxUint64
    /\ last.before[last.tx.signer] > 0
    /\ addressNonce[last.tx.signer] = last.before[last.tx.signer]
    /\ addressNonce[last.tx.signer] < MaxUint64

----------------------------------------------------------------------------
(* Properties of Eth.WaitForTxReceipt *)

\* the backend has no Commit method
NoCommit == wrapped.returned = "HandleNonceBackend"

\* one interval is waited before each lookup, a lookup that reports
\* NotFound is followed by the next wait, and NotFound is never returned
Polling ==
    /\ [](NoCommit =>
            /\ waitTx.commits = 0
            /\ waitTx.pc = "TransactionReceipt" =>
                   waitTx.intervals = waitTx.lookups + 1
            /\ waitTx.pc \in {"select", "returned", "panicked"} =>
                   waitTx.intervals = waitTx.lookups
            /\ waitTx.pc = "returned" =>
                   waitTx.err \notin {<<"not found">>,
                                      <<"waiting for tx", "not found">>})
    /\ [][(NoCommit /\ waitTx'.notFound # waitTx.notFound) =>
             /\ waitTx.pc = "TransactionReceipt"
             /\ waitTx'.pc = "select"]_vars

\* the call returned on a receipt or on an error of the lookup
ReturnedOnLookup ==
    /\ waitTx.cause = "lookup"
    /\ \/ /\ waitTx.node = "successful"
          /\ waitTx.tr = Some([Status |-> "successful"])
          /\ waitTx.err = <<>>
       \/ /\ waitTx.node = "failed"
          /\ waitTx.tr = None
          /\ waitTx.err = <<"waiting for tx", "tx failed">>
       \/ /\ waitTx.tr = None
          /\ waitTx.err = <<"waiting for tx", "errNode">>
       \/ /\ waitTx.ctxDone
          /\ waitTx.tr = None
          /\ waitTx.err = <<"waiting for tx", "context canceled">>

\* C39, as stated: on a backend without Commit the call waits one interval
\* before each lookup, polls on while the lookup reports NotFound, and
\* returns only on a receipt (nil error if its status is successful, an
\* error otherwise), on another error of the lookup, or on cancellation,
\* then with the error of the context; NotFound is never returned
C39_Original ==
    /\ Polling
    /\ [](NoCommit /\ waitTx.pc = "returned" =>
            \/ ReturnedOnLookup
            \/ /\ waitTx.cause = "ctx.Done"
               /\ waitTx.ctxDone
               /\ waitTx.tr = None
               /\ waitTx.err = ErrCanceled)

\* C39, amended: the same, but on cancellation the error returned is the
\* error of the context behind the prefix "waiting for tx(hash): ", like
\* every error the call returns
C39_PollsUntilReceipt ==
    /\ Polling
    /\ [](NoCommit /\ waitTx.pc = "returned" =>
            \/ ReturnedOnLookup
            \/ /\ waitTx.cause = "ctx.Done"
               /\ waitTx.ctxDone
               /\ waitTx.tr = None
               /\ waitTx.err = <<"waiting for tx", "context canceled">>)

\* the lookup reported NotFound twice and then a successful receipt, which
\* the call returned
C39_Witness ==
    /\ NoCommit
    /\ waitTx.pc = "returned"
    /\ waitTx.notFound >= 2
    /\ waitTx.lookups = waitTx.notFound + 1
    /\ waitTx.intervals = waitTx.lookups
    /\ waitTx.tr = Some([Status |-> "successful"])
    /\ waitTx.err = <<>>

----------------------------------------------------------------------------
(* Properties of chunkTransactions and Client.getBlock *)

\* the sequences of a sequence, one after the other
RECURSIVE Concat(_)
Concat(seqs) ==
    IF seqs = <<>> THEN <<>> ELSE Head(seqs) \o Concat(Tail(seqs))

\* chunkTransactions was applied to a positive chunk size
Chunked ==
    applied.f = "chunkTransactions" /\ applied.done /\ applied.args[2] > 0

\* getBlock returned
FetchReturned == blockFetch.pc = "returned"

\* the node answered one of the receipt requests with an error or with null
SomeReceiptMissing ==
    \E k \in DOMAIN blockFetch.answered :
        \E j \in DOMAIN blockFetch.answered[k] :
            blockFetch.answered[k][j].kind \in {"error", "null"}

\* C40: chunkTransactions(txs, n) with n > 0 returns chunks that, one after
\* the other, are txs; every chunk is non-empty and at most n long, and all
\* but the last are exactly n long, so an empty list gives no chunk.
\* getBlock sends one batch per chunk, in order, each with the hashes of
\* its chunk; it returns either a block or an error; a block it returns
\* has every transaction of the body in place with the gas of that
\* transaction's own receipt; and when any receipt request was answered
\* with an error or with null it returns an error and no block.
C40_ChunkedReceipts ==
    /\ Chunked =>
        LET txs == applied.args[1]
            n == applied.args[2]
            chunks == applied.result.chunks
        IN  /\ ~applied.result.panic
            /\ Concat(chunks) = txs
            /\ \A k \in DOMAIN chunks :
                /\ Len(chunks[k]) >= 1
                /\ Len(chunks[k]) <= n
                /\ k < Len(chunks) => Len(chunks[k]) = n
            /\ txs = <<>> => chunks = <<>>
    /\ Len(blockFetch.batches) <= Len(blockFetch.chunks)
    /\ \A k \in DOMAIN blockFetch.batches :
        /\ Len(blockFetch.batches[k]) = Len(blockFetch.chunks[k])
        /\ \A j \in DOMAIN blockFetch.batches[k] :
            blockFetch.batches[k][j].Args = blockFetch.chunks[k][j].Hash
    /\ FetchReturned =>
        /\ (blockFetch.block = None) # (blockFetch.err = <<>>)
        /\ SomeReceiptMissing => blockFetch.block = None
        /\ blockFetch.block # None =>
            LET got == Val(blockFetch.block)
            IN  /\ Len(blockFetch.batches) = Len(blockFetch.chunks)
                /\ Len(got) = Len(blockFetch.txs)
                /\ \A i \in DOMAIN got :
                    /\ got[i].Hash = blockFetch.txs[i].Hash
                    /\ got[i].GasUsed = Some(GasOf(got[i].Hash))

\* getBlock returned a block after two batches or more, the last one for a
\* chunk shorter than the chunk size
C40_Witness ==
    /\ FetchReturned
    /\ blockFetch.block # None
    /\ Len(blockFetch.batches) >= 2
    /\ Len(blockFetch.batches[Len(blockFetch.batches)]) < ChunkSize

====
